---------------------------- MODULE Spec2Model ----------------------------
(***************************************************************************)
(* A model of GlobalConfig (lza-upgrade/src/config/global-config.ts): the  *)
(* loader (load / loadFromString / fromObject and the constructor) and the *)
(* external landing zone resource reconciler (loadExternalMapping,         *)
(* setTemplateMap, loadLzaResources, loadRegionLzaResources,               *)
(* getParametersByPath, saveAseaResourceMapping).                          *)
(*                                                                         *)
(* JavaScript strings that the code inspects character by character (stack *)
(* names, physical resource ids) are sequences of one-character strings.   *)
(* A JavaScript value that may be undefined is a record [def, v]: def says *)
(* whether it is defined, v is its value (an empty value when undefined).  *)
(***************************************************************************)
EXTENDS Integers, Sequences, FiniteSets, TLC

(***************************************************************************)
(* Bounds of the model.                                                    *)
(***************************************************************************)
\* top-level reconciler calls the caller makes on one Config object
MaxCalls == 2
\* throttled responses a remote service gives to one request before its
\* final answer
MaxThrottle == 2
\* account/region pairs one loadLzaResources call has to reconcile
MaxPairs == 2

\* constructor calls of custom-resource constructs
MaxConstructs == 3

(***************************************************************************)
(* Strings as character sequences.                                         *)
(***************************************************************************)
\* String.prototype.startsWith(needle, at), at a 1-based position
StartsWithAt(s, needle, at) ==
    /\ at + Len(needle) - 1 <= Len(s)
    /\ \A k \in 1..Len(needle) : s[at + k - 1] = needle[k]

\* String.prototype.indexOf(needle): the 0-based index of the first
\* occurrence, -1 when there is none
IndexOf(s, needle) ==
    LET hits == {p \in 1..Len(s) : StartsWithAt(s, needle, p)}
    IN  IF hits = {} THEN -1
        ELSE (CHOOSE p \in hits : \A q \in hits : p <= q) - 1

\* String.prototype.includes(needle)
Includes(s, needle) == IndexOf(s, needle) >= 0

Digits == <<"0", "1", "2", "3", "4", "5", "6", "7", "8", "9">>

PhaseWord == <<"P", "h", "a", "s", "e">>

StackMarker == <<":", "s", "t", "a", "c", "k", "/">>

\* a JavaScript number that may be NaN
Num(n) == [nan |-> FALSE, n |-> n]
NaN == [nan |-> TRUE, n |-> 0]

\* stackName[i] for a 0-based index i: the character, or undefined
CharAt(s, i) ==
    IF i >= 0 /\ i < Len(s) THEN [def |-> TRUE, v |-> s[i + 1]]
    ELSE [def |-> FALSE, v |-> ""]

\* Number(c) for c a one-character string, the number -1, or undefined
NumberOfChar(c) ==
    IF ~c.def THEN NaN
    ELSE IF \E d \in 1..10 : Digits[d] = c.v
         THEN Num((CHOOSE d \in 1..10 : Digits[d] = c.v) - 1)
    ELSE IF c.v = " " THEN Num(0)
    ELSE NaN

\* the derivation without the branch for "-"
PhaseOfEveryChar(stackName) ==
    NumberOfChar(CharAt(stackName, IndexOf(stackName, PhaseWord) + 5))

\* the phase setTemplateMap derives from a stack name
PhaseOf(stackName) ==
    LET phaseIdentifierIndex == IndexOf(stackName, PhaseWord) + 5
        phase == CharAt(stackName, phaseIdentifierIndex)
    IN  IF phase.def /\ phase.v = "-" THEN Num(-1)
        ELSE NumberOfChar(phase)

(***************************************************************************)
(* The data the reconciler reads: account ids, regions, the mapping.json   *)
(* manifests and the aseaResources.json resource lists of the bucket.      *)
(***************************************************************************)
Regions == {"ca-central-1", "us-east-1"}

AccountIds == {"111", "222"}

NestedStackType == "AWS::CloudFormation::Stack"

NoString == [def |-> FALSE, v |-> ""]

SomeString(s) == [def |-> TRUE, v |-> s]

NamePhase1 == <<"P", "h", "a", "s", "e", "1", "-", "N">>
NamePhase2 == <<"P", "h", "a", "s", "e", "2", "-", "V">>
NamePhaseDash == <<"P", "h", "a", "s", "e", "-", "-", "S">>
NameCore == <<"C", "o", "r", "e", "7">>
NameOps == <<"O", "p", "s">>
NamePhaseTwice ==
    <<"P", "h", "a", "s", "e", "3", "P", "h", "a", "s", "e", "4">>

\* a CloudFormation stack id whose name segment is the given stack name
StackArn(stackName) == <<"a">> \o StackMarker \o stackName \o <<"/", "u">>

JsonSuffix == <<".", "j", "s", "o", "n">>

\* mapping.json: one account with a parent stack and the stack nested in it
MappingNested ==
    << [accountId |-> "111", accountKey |-> "management",
        stacksAndResourceMapList |->
          << [stackName |-> NamePhase1, region |-> "ca-central-1",
              template |-> "t1", parentStack |-> NoString,
              resourceMap |->
                << [resourceType |-> NestedStackType,
                    physicalResourceId |-> StackArn(NamePhase2)],
                   [resourceType |-> "AWS::IAM::Role",
                    physicalResourceId |-> <<"r">>] >>],
             [stackName |-> NamePhase2, region |-> "ca-central-1",
              template |-> "t2", parentStack |-> NoString,
              resourceMap |-> << >>] >>] >>

\* mapping.json: two accounts, stack names with "Phase-" and without "Phase"
MappingTwoAccounts ==
    << [accountId |-> "111", accountKey |-> "management",
        stacksAndResourceMapList |->
          << [stackName |-> NamePhaseDash, region |-> "ca-central-1",
              template |-> "t3", parentStack |-> NoString,
              resourceMap |-> << >>] >>],
       [accountId |-> "222", accountKey |-> "security",
        stacksAndResourceMapList |->
          << [stackName |-> NameCore, region |-> "us-east-1",
              template |-> "t4", parentStack |-> SomeString("p"),
              resourceMap |-> << >>] >>] >>

\* mapping.json: one account with the same stack name in two regions, the
\* stack of that name being nested in a parent stack of the first region
MappingTwoRegions ==
    << [accountId |-> "111", accountKey |-> "management",
        stacksAndResourceMapList |->
          << [stackName |-> NamePhaseTwice, region |-> "ca-central-1",
              template |-> "t5", parentStack |-> NoString,
              resourceMap |->
                << [resourceType |-> NestedStackType,
                    physicalResourceId |-> StackArn(NameOps)] >>],
             [stackName |-> NameOps, region |-> "ca-central-1",
              template |-> "t6", parentStack |-> NoString,
              resourceMap |-> << >>],
             [stackName |-> NameOps, region |-> "us-east-1",
              template |-> "t7", parentStack |-> NoString,
              resourceMap |-> << >>] >>] >>

Mappings == {MappingNested, MappingTwoAccounts, MappingTwoRegions}

\* aseaResources.json: a flat list of resource-mapping records
ResourceLists == {<< >>, <<[accountId |-> "111", resourceType |-> "IAM_ROLE"]>>}

NoJson == [def |-> FALSE, v |-> << >>]

SomeJson(j) == [def |-> TRUE, v |-> j]

(***************************************************************************)
(* setTemplateMap.  The temporary directories it creates are appended to   *)
(* templateDirs; fsBudget is the number of file-system operations (mkdtemp,*)
(* writeFile) that succeed before one throws, -1 when none throws.         *)
(***************************************************************************)
NestedIdsOf(resourceMap) ==
    SelectSeq(resourceMap, LAMBDA cfnResource :
                  cfnResource.resourceType = NestedStackType)

\* aseaStacks.findIndex(stack => physicalId.includes(`:stack/${stack.stackName}/`)),
\* 1-based, 0 when no stack matches
FindNestedIndex(aseaStacks, physicalId) ==
    LET hits == {i \in 1..Len(aseaStacks) :
                   Includes(physicalId,
                            StackMarker \o aseaStacks[i].stackName \o <<"/">>)}
    IN  IF hits = {} THEN 0 ELSE CHOOSE i \in hits : \A j \in hits : i <= j

RECURSIVE MarkNested(_, _, _)
MarkNested(aseaStacks, nestedStackPhysicalIds, k) ==
    IF k > Len(nestedStackPhysicalIds) THEN aseaStacks
    ELSE LET nestedStack ==
                 FindNestedIndex(aseaStacks,
                                 nestedStackPhysicalIds[k].physicalResourceId)
         IN  MarkNested(IF nestedStack > 0
                        THEN [aseaStacks EXCEPT ![nestedStack].nestedStack = TRUE]
                        ELSE aseaStacks,
                        nestedStackPhysicalIds, k + 1)

\* one iteration of the loop over account.stacksAndResourceMapList
StackStep(account, stack, st) ==
    IF st.budget = 0 THEN [st EXCEPT !.failed = TRUE]
    ELSE LET dir == Len(st.dirs) + 1
             file == stack.stackName \o JsonSuffix
         IN  IF st.budget = 1
             THEN [st EXCEPT !.failed = TRUE,
                             !.budget = 0,
                             !.dirs = Append(@, [file |-> file, content |-> "",
                                                 written |-> FALSE])]
             ELSE [st EXCEPT
                     !.budget = IF @ < 0 THEN @ ELSE @ - 2,
                     !.dirs = Append(@, [file |-> file,
                                         content |-> stack.template,
                                         written |-> TRUE]),
                     !.nested = @ \o NestedIdsOf(stack.resourceMap),
                     !.stacks = Append(@,
                        [accountId |-> account.accountId,
                         accountKey |-> account.accountKey,
                         region |-> stack.region,
                         stackName |-> stack.stackName,
                         resources |-> stack.resourceMap,
                         templatePath |-> [dir |-> dir, file |-> file],
                         phase |-> PhaseOf(stack.stackName),
                         nestedStack |-> stack.parentStack.def])]

RECURSIVE StacksLoop(_, _, _)
StacksLoop(account, j, st) ==
    IF st.failed \/ j > Len(account.stacksAndResourceMapList) THEN st
    ELSE StacksLoop(account, j + 1,
                    StackStep(account, account.stacksAndResourceMapList[j], st))

RECURSIVE AccountsLoop(_, _, _)
AccountsLoop(mappingJson, i, st) ==
    IF st.failed \/ i > Len(mappingJson) THEN st
    ELSE LET account == mappingJson[i]
             pushed == [st EXCEPT !.accounts = Append(@, account.accountId),
                                  !.nested = << >>]
             looped == StacksLoop(account, 1, pushed)
         IN  AccountsLoop(mappingJson, i + 1,
                 IF looped.failed THEN looped
                 ELSE [looped EXCEPT
                         !.stacks = MarkNested(@, looped.nested, 1)])

\* setTemplateMap(mappingJson): mapping is [def, v]; for an undefined
\* mapping the for..of loop throws at once.  accounts starts from the
\* current accountsDeployedExternally, dirs from the current templateDirs.
SetTemplateMap(mapping, accounts, dirs, fsBudget) ==
    IF ~mapping.def
    THEN [failed |-> TRUE, stacks |-> << >>, accounts |-> accounts,
          dirs |-> dirs, nested |-> << >>, budget |-> fsBudget]
    ELSE AccountsLoop(mapping.v, 1,
             [failed |-> FALSE, stacks |-> << >>, accounts |-> accounts,
              dirs |-> dirs, nested |-> << >>, budget |-> fsBudget])

(***************************************************************************)
(* The Configuration Document: the fields of a GlobalConfig object.        *)
(***************************************************************************)
EmptyParameters == [k \in {} |-> <<"", "", "">>]

EmptyResourceParameters == [k \in {} |-> EmptyParameters]

Undefined(empty) == [def |-> FALSE, v |-> empty]

Defined(value) == [def |-> TRUE, v |-> value]

\* the parsed externalLandingZoneResources section of a document: a plain
\* object with the schema's fields, the reconciler's fields not yet set
ElzSection(import, bucket) ==
    [importExternalLandingZoneResources |-> import,
     mappingFileBucket |-> bucket,
     acceleratorPrefix |-> "ASEA",
     acceleratorName |-> "ASEA",
     templateMap |-> Undefined(<< >>),
     resourceList |-> Undefined(<< >>),
     accountsDeployedExternally |-> Undefined(<< >>),
     resourceParameters |-> Undefined(EmptyResourceParameters)]

NoElz == Undefined(ElzSection(FALSE, NoString))

\* the field initialisers of class ControlTowerConfig
ControlTowerDefault == [enable |-> TRUE, controls |-> Defined(<< >>)]

\* the field initialisers of class LoggingConfig (its account field)
LoggingDefault == [account |-> "LogArchive"]

CloudwatchLogRetentionDefault == 3653

\* the field initialisers of class GlobalConfig
GlobalConfigDefault ==
    [homeRegion |-> "",
     enabledRegions |-> << >>,
     managementAccountAccessRole |-> "",
     cloudwatchLogRetentionInDays |-> CloudwatchLogRetentionDefault,
     terminationProtection |-> Defined(TRUE),
     externalLandingZoneResources |-> NoElz,
     controlTower |-> ControlTowerDefault,
     logging |-> LoggingDefault]

\* Object.assign taking the optional keys the document omits as keys with
\* the value undefined
ObjectAssignAll(this, values) ==
    [this EXCEPT
       !.homeRegion = values.homeRegion,
       !.enabledRegions = values.enabledRegions,
       !.managementAccountAccessRole = values.managementAccountAccessRole,
       !.cloudwatchLogRetentionInDays = values.cloudwatchLogRetentionInDays,
       !.controlTower = values.controlTower,
       !.logging = values.logging,
       !.terminationProtection =
           IF "terminationProtection" \in values.present
           THEN values.terminationProtection ELSE Undefined(FALSE),
       !.externalLandingZoneResources =
           IF "externalLandingZoneResources" \in values.present
           THEN values.externalLandingZoneResources ELSE NoElz]

\* Object.assign(this, values): every key present in values replaces the
\* field; values.present names the optional keys the document holds
ObjectAssign(this, values) ==
    [this EXCEPT
       !.homeRegion = values.homeRegion,
       !.enabledRegions = values.enabledRegions,
       !.managementAccountAccessRole = values.managementAccountAccessRole,
       !.cloudwatchLogRetentionInDays = values.cloudwatchLogRetentionInDays,
       !.controlTower = values.controlTower,
       !.logging = values.logging,
       !.terminationProtection =
           IF "terminationProtection" \in values.present
           THEN values.terminationProtection ELSE @,
       !.externalLandingZoneResources =
           IF "externalLandingZoneResources" \in values.present
           THEN values.externalLandingZoneResources ELSE @]

\* the constructor with the fallback path leaving out the access role
ConstructorWithoutRole(props, values) ==
    IF values.def
    THEN ObjectAssign(GlobalConfigDefault, values.v)
    ELSE [GlobalConfigDefault EXCEPT
            !.homeRegion = props.homeRegion,
            !.enabledRegions = <<props.homeRegion>>,
            !.controlTower = [enable |-> props.controlTower.enable,
                              controls |-> Defined(<< >>)]]

\* new GlobalConfig(props, values); values is [def, v]
Constructor(props, values) ==
    IF values.def
    THEN ObjectAssign(GlobalConfigDefault, values.v)
    ELSE [GlobalConfigDefault EXCEPT
            !.homeRegion = props.homeRegion,
            !.enabledRegions = <<props.homeRegion>>,
            !.controlTower = [enable |-> props.controlTower.enable,
                              controls |-> Defined(<< >>)],
            !.managementAccountAccessRole = props.managementAccountAccessRole]

(***************************************************************************)
(* Documents.  A raw document is what yaml.load returns or what fromObject *)
(* is given: every scalar carries its JavaScript type.  A document text    *)
(* holds every scalar as the characters written in the YAML file.          *)
(***************************************************************************)
Absent == [t |-> "absent", s |-> "", b |-> FALSE, n |-> 0]
Null == [t |-> "null", s |-> "", b |-> FALSE, n |-> 0]
Str(s) == [t |-> "string", s |-> s, b |-> FALSE, n |-> 0]
Bool(b) == [t |-> "boolean", s |-> "", b |-> b, n |-> 0]
Numeric(n) == [t |-> "number", s |-> "", b |-> FALSE, n |-> n]

\* the YAML texts that resolve to a number, with their values
NumberTexts == {<<"3653", 3653>>, <<"7", 7>>}

\* js-yaml's resolution of a plain scalar (core schema); "absent" marks a
\* key the text does not hold
YamlScalar(text) ==
    IF ~text.def THEN Absent
    ELSE IF text.v \in {"", "~", "null"} THEN Null
    ELSE IF text.v \in {"true", "True", "TRUE"} THEN Bool(TRUE)
    ELSE IF text.v \in {"false", "False", "FALSE"} THEN Bool(FALSE)
    ELSE IF \E p \in NumberTexts : p[1] = text.v
         THEN Numeric((CHOOSE p \in NumberTexts : p[1] = text.v)[2])
    ELSE Str(text.v)

\* yaml.load(content) for a document text; error tells whether it throws
\* instead, as it does for a text that is not well-formed YAML
YamlLoad(content) ==
    [homeRegion |-> YamlScalar(content.homeRegion),
     enabledRegions |->
         [i \in 1..Len(content.enabledRegions) |->
              YamlScalar(Defined(content.enabledRegions[i]))],
     managementAccountAccessRole |->
         YamlScalar(content.managementAccountAccessRole),
     cloudwatchLogRetentionInDays |->
         YamlScalar(content.cloudwatchLogRetentionInDays),
     terminationProtection |-> YamlScalar(content.terminationProtection),
     controlTowerEnable |-> YamlScalar(content.controlTowerEnable),
     loggingAccount |-> YamlScalar(content.loggingAccount),
     error |-> IF content.wellFormed THEN "none" ELSE "YAMLException",
     elz |-> content.elz,
     elzImport |-> YamlScalar(content.elzImport),
     elzBucket |-> YamlScalar(content.elzBucket)]

\* t.nonEmptyString
IsNonEmptyString(x) == x.t = "string" /\ x.s # ""

\* t.optional(c): the value is of type c or undefined
IsOptional(x, ok) == x.t = "absent" \/ ok

\* does the raw document conform to GlobalConfigTypes.globalConfig
Conforms(raw) ==
    /\ IsNonEmptyString(raw.homeRegion)
    /\ \A i \in 1..Len(raw.enabledRegions) :
          /\ raw.enabledRegions[i].t = "string"
          /\ raw.enabledRegions[i].s \in Regions
    /\ IsNonEmptyString(raw.managementAccountAccessRole)
    /\ raw.cloudwatchLogRetentionInDays.t = "number"
    /\ IsOptional(raw.terminationProtection,
                  raw.terminationProtection.t = "boolean")
    /\ raw.controlTowerEnable.t = "boolean"
    /\ raw.loggingAccount.t = "string"
    /\ raw.elz =>
          /\ raw.elzImport.t = "boolean"
          /\ IsOptional(raw.elzBucket, raw.elzBucket.t = "string")

\* the value t.parse returns for a conforming raw document
ValuesOf(raw) ==
    [homeRegion |-> raw.homeRegion.s,
     enabledRegions |->
         [i \in 1..Len(raw.enabledRegions) |-> raw.enabledRegions[i].s],
     managementAccountAccessRole |-> raw.managementAccountAccessRole.s,
     cloudwatchLogRetentionInDays |-> raw.cloudwatchLogRetentionInDays.n,
     terminationProtection |-> Defined(raw.terminationProtection.b),
     controlTower |-> [enable |-> raw.controlTowerEnable.b,
                       controls |-> Undefined(<< >>)],
     logging |-> [account |-> raw.loggingAccount.s],
     externalLandingZoneResources |->
         Defined(ElzSection(raw.elzImport.b,
                            IF raw.elzBucket.t = "string"
                            THEN SomeString(raw.elzBucket.s) ELSE NoString)),
     present |->
         (IF raw.terminationProtection.t = "boolean"
          THEN {"terminationProtection"} ELSE {})
         \cup (IF raw.elz THEN {"externalLandingZoneResources"} ELSE {})]

\* t.parse(GlobalConfigTypes.globalConfig, raw): the values, or a throw
Parse(raw) ==
    IF Conforms(raw) THEN [ok |-> TRUE, values |-> ValuesOf(raw)]
    ELSE [ok |-> FALSE, values |-> ValuesOf(raw)]

Returned(config) == [status |-> "returned", error |-> "none", config |-> config]

Thrown(error) ==
    [status |-> "thrown", error |-> error, config |-> GlobalConfigDefault]

PropsOf(values) ==
    [homeRegion |-> values.homeRegion,
     controlTower |-> values.controlTower,
     managementAccountAccessRole |-> values.managementAccountAccessRole]

\* GlobalConfig.fromObject(content)
FromObject(content) ==
    LET parsed == Parse(content)
    IN  IF ~parsed.ok THEN Thrown("SchemaValidationError")
        ELSE Returned(Constructor(PropsOf(parsed.values),
                                  Defined(parsed.values)))

\* GlobalConfig.load(dir); file is the content of dir/global-config.yaml,
\* [def, v]
Load(file) ==
    IF ~file.def THEN Thrown("ENOENT")
    ELSE LET raw == YamlLoad(file.v)
             parsed == Parse(raw)
         IN  IF raw.error # "none" THEN Thrown(raw.error)
             ELSE IF ~parsed.ok THEN Thrown("SchemaValidationError")
             ELSE Returned(Constructor(PropsOf(parsed.values),
                                       Defined(parsed.values)))

\* loadFromString handing the parsed values to the constructor as its
\* values argument, as fromObject does
LoadFromStringWithValues(content) ==
    LET raw == YamlLoad(content)
        parsed == Parse(raw)
    IN  IF raw.error # "none" \/ ~parsed.ok
        THEN Thrown("Could not load global configuration")
        ELSE Returned(Constructor(PropsOf(parsed.values),
                                  Defined(parsed.values)))

\* loadFromString with a catch that logs and returns undefined
LoadFromStringSwallowing(content) ==
    LET raw == YamlLoad(content)
        parsed == Parse(raw)
    IN  IF raw.error # "none" \/ ~parsed.ok
        THEN [status |-> "undefined", error |-> "none",
              config |-> GlobalConfigDefault]
        ELSE Returned(Constructor(parsed.values,
                                  Undefined(parsed.values)))

\* GlobalConfig.loadFromString(content): the parsed values are passed as
\* the constructor's props, and no values argument is given; whatever
\* yaml.load or t.parse throws is caught and a new Error is thrown
LoadFromString(content) ==
    LET raw == YamlLoad(content)
        parsed == Parse(raw)
    IN  IF raw.error # "none" \/ ~parsed.ok
        THEN Thrown("Could not load global configuration")
        ELSE Returned(Constructor(parsed.values,
                                  Undefined(parsed.values)))

(***************************************************************************)
(* Remote services.  Every request is answered by n throttled responses    *)
(* followed by a final answer.                                             *)
(***************************************************************************)
\* attempts throttlingBackOff makes before it gives up
BackoffAttempts == 2

\* throttlingBackOff(() => request): throttled responses are retried until
\* the attempts are used up
ThrottlingBackOff(n, final) == IF n < BackoffAttempts THEN final ELSE "Throttling"

\* a request made directly on the client: its first response is the result
Direct(n, final) == IF n > 0 THEN "Throttling" ELSE final

\* what a caller can get from a request that goes through throttlingBackOff:
\* the answer, and the throttled responses before a surfaced "Throttling"
BackedOff(finals) ==
    {[answer |-> ThrottlingBackOff(n, final),
      throttled |-> IF ThrottlingBackOff(n, final) = "Throttling" THEN n ELSE 0] :
        n \in 0..MaxThrottle, final \in finals}

\* the same for a request made directly on the client, which sees one
\* response only
Unwrapped(finals) ==
    {[answer |-> Direct(n, final),
      throttled |-> IF Direct(n, final) = "Throttling" THEN 1 ELSE 0] :
        n \in 0..MaxThrottle, final \in finals}

\* the final answers of s3.getObject for an object that exists or not
S3GetAnswers(exists) ==
    (IF exists THEN {"ok"} ELSE {"NoSuchKey"}) \cup {"AccessDenied"}

RemoteAnswers == {"ok", "AccessDenied"}

\* s3Client.getObject({...}).promise()
GetObjectOutcomes(exists) == Unwrapped(S3GetAnswers(exists))

\* s3Client.putObject({...}).promise()
PutObjectOutcomes == Unwrapped(RemoteAnswers)

\* the role assumption sent without throttlingBackOff
AssumeRoleUnwrapped == Unwrapped(RemoteAnswers)

\* throttlingBackOff(() => stsClient.send(new AssumeRoleCommand(stsParams)))
AssumeRoleOutcomes == BackedOff(RemoteAnswers)

\* throttlingBackOff(() => ssmClient.send(new GetParametersByPathCommand(...)))
PageOutcomes == BackedOff(RemoteAnswers)

\* loadExternalMappingFromS3 for a configured bucket: the parsed body, or
\* a throw on every error
LoadExternalMappingFromS3(got, object) ==
    IF got.answer = "ok" THEN [thrown |-> FALSE, json |-> object]
    ELSE [thrown |-> TRUE, json |-> NoJson]

\* readJsonFromExternalS3 with a catch that returns undefined on every error
ReadJsonSwallowing(got, object) ==
    IF got.answer = "ok" THEN [thrown |-> FALSE, json |-> object]
    ELSE [thrown |-> FALSE, json |-> NoJson]

\* readJsonFromExternalS3 without the NoSuchKey case of its catch
ReadJsonRethrowing(got, object) ==
    IF got.answer = "ok" THEN [thrown |-> FALSE, json |-> object]
    ELSE [thrown |-> TRUE, json |-> NoJson]

\* readJsonFromExternalS3 for a configured bucket: the parsed body,
\* undefined for NoSuchKey, a throw on every other error
ReadJsonFromExternalS3(got, object) ==
    IF got.answer = "ok" THEN [thrown |-> FALSE, json |-> object]
    ELSE IF got.answer = "NoSuchKey" THEN [thrown |-> FALSE, json |-> NoJson]
    ELSE [thrown |-> TRUE, json |-> NoJson]

\* the requests the reconciler sends
GetMapping == "s3:GetObject mapping.json"
GetResources == "s3:GetObject aseaResources.json"
PutResources == "s3:PutObject aseaResources.json"
AssumeRole == "sts:AssumeRole"
GetParametersByPath == "ssm:GetParametersByPath"

\* t.AseaResourceTypePaths in the order loadRegionLzaResources queries them
Namespaces == <<"IAM", "VPC", "TRANSIT_GATEWAY", "VPC_PEERING">>

\* `${accountId}-${region}`
KeyOf(accountId, region) == <<accountId, region>>

\* the assignment that keeps the value a name has already
PutParameterKeepFirst(parameters, name, value) ==
    [k \in DOMAIN parameters \cup {name} |->
        IF k \in DOMAIN parameters THEN parameters[k] ELSE value]

\* parameters[parameter.Name] = parameter.Value
PutParameter(parameters, name, value) ==
    [k \in DOMAIN parameters \cup {name} |->
        IF k = name THEN value ELSE parameters[k]]

RECURSIVE PutPage(_, _, _)
PutPage(parameters, page, k) ==
    IF k > Len(page) THEN parameters
    ELSE PutPage(PutParameter(parameters, page[k].Name, page[k].Value),
                 page, k + 1)

\* the parameters getParametersByPath holds after the first count pages
RECURSIVE PagesMerged(_, _)
PagesMerged(pages, count) ==
    IF count = 0 THEN EmptyParameters
    ELSE PutPage(PagesMerged(pages, count - 1), pages[count], 1)

\* { ...resources, ...result }
Spread(resources, result) ==
    [k \in DOMAIN resources \cup DOMAIN result |->
        IF k \in DOMAIN result THEN result[k] ELSE resources[k]]

\* ssmResults.reduce((resources, result) => ({...resources, ...result}), {})
RECURSIVE Reduce(_, _)
Reduce(ssmResults, count) ==
    IF count = 0 THEN EmptyParameters
    ELSE Spread(Reduce(ssmResults, count - 1), ssmResults[count])

\* parameter store contents: the pages a namespace query returns
StoreOnePage ==
    [ns \in {"IAM", "VPC", "TRANSIT_GATEWAY", "VPC_PEERING"} |->
        << <<[Name |-> ns, Value |-> "v1"]>> >>]

\* a namespace whose query takes three pages, with a name that comes back
\* on a later page and one that another namespace holds too
StoreThreePages ==
    [ns \in {"IAM", "VPC", "TRANSIT_GATEWAY", "VPC_PEERING"} |->
        IF ns = "IAM"
        THEN << <<[Name |-> "role", Value |-> "v1"]>>,
                <<[Name |-> "VPC", Value |-> "v2"]>>,
                <<[Name |-> "role", Value |-> "v3"]>> >>
        ELSE << <<[Name |-> ns, Value |-> "v1"]>> >>]

SsmStores == {StoreOnePage, StoreThreePages}

\* the pages of one namespace for one account and region: the values carry
\* the account id and the region
PagesOf(store, accountId, region, ns) ==
    [p \in 1..Len(store[ns]) |->
        [k \in 1..Len(store[ns][p]) |->
            [Name |-> store[ns][p][k].Name,
             Value |-> <<accountId, region, store[ns][p][k].Value>>]]]

(***************************************************************************)
(* State.                                                                  *)
(***************************************************************************)
VARIABLES
    config,        \* the GlobalConfig object the reconciler works on
    bucket,        \* the mapping bucket: mapping.json and aseaResources.json
    ssm,           \* the parameter store contents
    assetDirs,     \* the asea-assets* directories mkdtemp has created
    templateDirs,  \* the asea-templates-* directories mkdtemp has created
    call,          \* the reconciler call made last: its progress and result
    tasks,         \* the loadRegionLzaResources tasks of the last call
    nCalls,        \* reconciler calls made so far
    document,      \* the configuration document given to the loader
    loaded,        \* the loader call made last and its result
    cdk            \* the construct trees of the CDK stacks

vars == <<config, bucket, ssm, assetDirs, templateDirs, call, tasks, nCalls,
          document, loaded, cdk>>

env == <<bucket, ssm, document, loaded, cdk>>

Elz == config.externalLandingZoneResources

\* the guard testing only that the section is present
ElzPresent == config.externalLandingZoneResources.def

\* this.externalLandingZoneResources?.importExternalLandingZoneResources
ImportEnabled == Elz.def /\ Elz.v.importExternalLandingZoneResources

\* this.externalLandingZoneResources.mappingFileBucket is truthy
HasBucket == Elz.v.mappingFileBucket.def /\ Elz.v.mappingFileBucket.v # ""

WithElz(cfg, elz) == [cfg EXCEPT !.externalLandingZoneResources.v = elz]

\* the parameters of an s3.putObject request; none when no put was made
NoRequest == [Key |-> "", Body |-> << >>, ServerSideEncryption |-> "none"]

\* the put request without the encryption parameter
PutObjectRequestPlain(resources) ==
    [Key |-> "aseaResources.json", Body |-> resources,
     ServerSideEncryption |-> "none"]

\* { Bucket: mappingFileBucket, Key: 'aseaResources.json',
\*   Body: JSON.stringify(resources), ServerSideEncryption: 'AES256' }
PutObjectRequest(resources) ==
    [Key |-> "aseaResources.json", Body |-> resources,
     ServerSideEncryption |-> "AES256"]

\* the bucket after a put request was carried out
PutObject(objects, request) ==
    IF request.Key = "aseaResources.json"
    THEN [objects EXCEPT !.resources = SomeJson(request.Body)]
    ELSE [objects EXCEPT !.mapping = SomeJson(request.Body)]

IdleCall ==
    [op |-> "none", status |-> "idle", pc |-> "none",
     loadFromCache |-> FALSE, usedCache |-> FALSE,
     error |-> "none", throttled |-> 0, failedAt |-> "none",
     requested |-> {}, launched |-> 0,
     mapping |-> NoJson, resourceFetch |-> "none",
     resources |-> << >>, request |-> NoRequest,
     pre |-> GlobalConfigDefault, preAssetDirs |-> << >>,
     preTemplateDirs |-> << >>, preBucket |-> [mapping |-> NoJson,
                                              resources |-> NoJson]]

\* a call begins: what the state was when it was made
NewCall(op) ==
    [IdleCall EXCEPT !.op = op, !.status = "running", !.pre = config,
                     !.preAssetDirs = assetDirs,
                     !.preTemplateDirs = templateDirs,
                     !.preBucket = bucket]

Rejected(c, where, error, n) ==
    [c EXCEPT !.status = "rejected", !.pc = "none", !.failedAt = where,
              !.error = error, !.throttled = n]

Resolved(c) == [c EXCEPT !.status = "resolved", !.pc = "none"]

TaskSettled(t) == t.pc \in {"done", "failed"}

\* the caller makes one reconciler call at a time, and makes the next when
\* every task of the last has ended
CanCall ==
    /\ call.status # "running"
    /\ \A t \in 1..Len(tasks) : TaskSettled(tasks[t])
    /\ nCalls < MaxCalls

(***************************************************************************)
(* loadExternalMapping(loadFromCache).  The JSON files hold the text       *)
(* JSON.stringify gives for a value that JSON.parse returned; they are     *)
(* modelled by that value.                                                 *)
(***************************************************************************)
RECURSIVE StackCount(_, _)
StackCount(mappingJson, i) ==
    IF i > Len(mappingJson) THEN 0
    ELSE Len(mappingJson[i].stacksAndResourceMapList)
            + StackCount(mappingJson, i + 1)

\* the file-system budgets that differ for a mapping: -1 is no failure
FsBudgets(mapping) ==
    {-1} \cup (IF mapping.def THEN 0..(2 * StackCount(mapping.v, 1) - 1)
               ELSE {})

\* the directory fs.promises.mkdtemp creates: a new one, so an empty one
NewAssetDir == [mapping |-> NoJson, resources |-> NoJson]

\* fs.existsSync of a cache file
ExistsSync(file) == file.def

\* the template map assigned also when setTemplateMap threw
AssignTemplateMapAlways(cfg, made) ==
    [cfg EXCEPT
       !.externalLandingZoneResources.v.accountsDeployedExternally =
           Defined(made.accounts),
       !.externalLandingZoneResources.v.templateMap = Defined(made.stacks)]

\* the config and directories after
\*   this.externalLandingZoneResources.templateMap = await this.setTemplateMap(mapping)
AssignTemplateMap(cfg, made) ==
    [cfg EXCEPT
       !.externalLandingZoneResources.v.accountsDeployedExternally =
           Defined(made.accounts),
       !.externalLandingZoneResources.v.templateMap =
           IF made.failed THEN @ ELSE Defined(made.stacks)]

\* the call without the reset of accountsDeployedExternally
ResetAccountsKeeping(cfg) ==
    [cfg EXCEPT
       !.externalLandingZoneResources.v.accountsDeployedExternally =
           Defined(@.v)]

\* this.externalLandingZoneResources.accountsDeployedExternally = []
ResetAccounts(cfg) ==
    [cfg EXCEPT
       !.externalLandingZoneResources.v.accountsDeployedExternally =
           Defined(<< >>)]

\* the call is made; up to the first await (mkdtemp)
LoadExternalMapping(loadFromCache) ==
    /\ CanCall
    /\ nCalls' = nCalls + 1
    /\ tasks' = << >>
    /\ IF ~ImportEnabled
       THEN /\ call' = Resolved([NewCall("loadExternalMapping") EXCEPT
                                   !.loadFromCache = loadFromCache])
            /\ config' = config
       ELSE /\ call' = [NewCall("loadExternalMapping") EXCEPT
                          !.loadFromCache = loadFromCache, !.pc = "mkdtemp"]
            /\ config' = ResetAccounts(config)
    /\ UNCHANGED <<assetDirs, templateDirs, env>>

\* mkdtemp has answered; up to the next await whose result is not at hand:
\* the cached branch to its end, the other branch to the mapping.json request
MkdtempDone ==
    /\ call.op = "loadExternalMapping" /\ call.pc = "mkdtemp"
    /\ \E ok \in BOOLEAN, fsBudget \in FsBudgets(NewAssetDir.mapping) :
         IF ~ok
         THEN /\ call' = Rejected(call, "mkdtemp", "fs", 0)
              /\ UNCHANGED <<config, assetDirs, templateDirs>>
         ELSE LET dir == NewAssetDir
                  accounts == Elz.v.accountsDeployedExternally.v
              IN  /\ assetDirs' = Append(assetDirs, dir)
                  /\ IF call.loadFromCache /\ ExistsSync(dir.mapping)
                     THEN LET made == SetTemplateMap(dir.mapping, accounts,
                                                     templateDirs, fsBudget)
                              assigned == AssignTemplateMap(config, made)
                          IN  /\ templateDirs' = made.dirs
                              /\ IF made.failed
                                 THEN /\ config' = assigned
                                      /\ call' = Rejected(call, "setTemplateMap",
                                                          "fs", 0)
                                 ELSE IF ~ExistsSync(dir.resources)
                                 THEN /\ config' = assigned
                                      /\ call' = Rejected(call, "readJsonFromDisk",
                                                          "ENOENT", 0)
                                 ELSE /\ config' = [assigned EXCEPT
                                           !.externalLandingZoneResources.v.resourceList =
                                               Defined(dir.resources.v)]
                                      /\ call' = Resolved([call EXCEPT
                                                             !.usedCache = TRUE])
                     ELSE IF HasBucket
                     THEN /\ call' = [call EXCEPT
                                           !.pc = "mapping",
                                           !.requested = @ \cup {GetMapping}]
                          /\ UNCHANGED <<config, templateDirs>>
                     ELSE \* loadExternalMappingFromS3 returns undefined and
                          \* setTemplateMap throws on it
                          /\ call' = Rejected(call, "setTemplateMap",
                                              "TypeError", 0)
                          /\ UNCHANGED <<config, templateDirs>>
    /\ UNCHANGED <<tasks, nCalls, env>>

\* s3.getObject(mapping.json) has answered; setTemplateMap runs, and the
\* aseaResources.json request is made
MappingFetched ==
    /\ call.op = "loadExternalMapping" /\ call.pc = "mapping"
    /\ \E got \in GetObjectOutcomes(bucket.mapping.def),
          fsBudget \in FsBudgets(bucket.mapping) :
         LET answer == got.answer
             n == got.throttled
             fetched == LoadExternalMappingFromS3(got, bucket.mapping)
             made == SetTemplateMap(fetched.json,
                                    Elz.v.accountsDeployedExternally.v,
                                    templateDirs, fsBudget)
         IN  IF fetched.thrown
             THEN /\ call' = Rejected(call, "mapping.json", answer, n)
                  /\ UNCHANGED <<config, templateDirs>>
             ELSE /\ config' = AssignTemplateMap(config, made)
                  /\ templateDirs' = made.dirs
                  /\ call' = IF made.failed
                             THEN Rejected([call EXCEPT !.mapping = fetched.json],
                                           "setTemplateMap", "fs", 0)
                             ELSE [call EXCEPT
                                     !.mapping = fetched.json,
                                     !.pc = "resources",
                                     !.requested = @ \cup {GetResources}]
    /\ UNCHANGED <<assetDirs, tasks, nCalls, env>>

\* s3.getObject(aseaResources.json) has answered; the two cache files are
\* written; written is the number of writeFileSync calls that succeed
ResourcesFetched ==
    /\ call.op = "loadExternalMapping" /\ call.pc = "resources"
    /\ \E got \in GetObjectOutcomes(bucket.resources.def),
          written \in 0..2 :
         LET answer == got.answer
             n == got.throttled
             read == ReadJsonFromExternalS3(got, bucket.resources)
             list == IF read.json.def THEN read.json.v ELSE << >>
             last == Len(assetDirs)
             fetched == [call EXCEPT !.resourceFetch = answer]
         IN  IF read.thrown
             THEN /\ call' = Rejected(fetched, "aseaResources.json", answer, n)
                  /\ UNCHANGED <<config, assetDirs>>
             ELSE /\ config' = [config EXCEPT
                        !.externalLandingZoneResources.v.resourceList =
                            Defined(list)]
                  /\ assetDirs' = [assetDirs EXCEPT
                        ![last].mapping =
                            IF written >= 1 THEN call.mapping ELSE @,
                        ![last].resources =
                            IF written = 2 THEN SomeJson(list) ELSE @]
                  /\ call' = IF written = 2 THEN Resolved(fetched)
                             ELSE Rejected(fetched, "writeFileSync", "fs", 0)
    /\ UNCHANGED <<templateDirs, tasks, nCalls, env>>

(***************************************************************************)
(* loadLzaResources(partition, prefix) and its loadRegionLzaResources      *)
(* tasks, one per entry of enabledRegions.                                 *)
(***************************************************************************)
NoQueries == [ns \in {"IAM", "VPC", "TRANSIT_GATEWAY", "VPC_PEERING"} |-> 0]

\* const parameters = {} of each of the four getParametersByPath calls
NoResults ==
    [ns \in {"IAM", "VPC", "TRANSIT_GATEWAY", "VPC_PEERING"} |->
        EmptyParameters]

\* loadRegionLzaResources(region, ...) up to its first await: the role
\* a task that reconciles the first account only
LaunchTaskFirstAccount(region, accounts) ==
    [region |-> region,
     accounts |-> IF accounts = << >> THEN accounts ELSE <<accounts[1]>>,
     i |-> 1,
     pc |-> IF accounts = << >> THEN "done" ELSE "sts",
     q |-> NoQueries, r |-> NoResults, failedAt |-> "none"]

\* assumption for the first account, or the end when there is no account
LaunchTask(region, accounts) ==
    [region |-> region, accounts |-> accounts, i |-> 1,
     pc |-> IF accounts = << >> THEN "done" ELSE "sts",
     q |-> NoQueries, r |-> NoResults, failedAt |-> "none"]

\* Promise.race in the place of Promise.all: the first task to end decides
SettleRace(c, ts, where, got) ==
    IF c.status # "running" THEN c
    ELSE IF \E t \in 1..Len(ts) : ts[t].pc = "failed"
         THEN Rejected(c, where, got.answer, got.throttled)
    ELSE IF ts = << >> \/ \E t \in 1..Len(ts) : ts[t].pc = "done"
         THEN Resolved(c)
    ELSE c

\* Promise.all(lzaResourcesPromises) as the tasks stand; got is the answer
\* of the request that made a task fail, where the call that made it
Settle(c, ts, where, got) ==
    IF c.status # "running" THEN c
    ELSE IF \E t \in 1..Len(ts) : ts[t].pc = "failed"
         THEN Rejected(c, where, got.answer, got.throttled)
    ELSE IF \A t \in 1..Len(ts) : ts[t].pc = "done" THEN Resolved(c)
    ELSE c

\* the requests the tasks have sent right after they were launched
Requests(ts) ==
    IF \E t \in 1..Len(ts) : ts[t].pc = "sts" THEN {AssumeRole} ELSE {}

LoadLzaResources ==
    /\ CanCall
    /\ nCalls' = nCalls + 1
    /\ IF ~ImportEnabled
       THEN /\ call' = Resolved(NewCall("loadLzaResources"))
            /\ config' = config
            /\ tasks' = << >>
       ELSE LET accounts == IF Elz.v.accountsDeployedExternally.def
                            THEN Elz.v.accountsDeployedExternally.v
                            ELSE << >>
                launched == [t \in 1..Len(config.enabledRegions) |->
                                LaunchTask(config.enabledRegions[t], accounts)]
            IN  /\ config' = [config EXCEPT
                      !.externalLandingZoneResources.v.resourceParameters =
                          IF @.def THEN @ ELSE Defined(EmptyResourceParameters)]
                /\ tasks' = launched
                /\ call' = Settle([NewCall("loadLzaResources") EXCEPT
                                     !.launched = Len(launched),
                                     !.requested = Requests(launched)],
                                  launched, "none",
                                  [answer |-> "ok", throttled |-> 0])
    /\ UNCHANGED <<assetDirs, templateDirs, env>>

\* a task that fails taking the tasks still running down with it
StepAbortingOthers(ts, t, task) ==
    [u \in 1..Len(ts) |->
        IF u = t THEN task
        ELSE IF task.pc = "failed" /\ ~TaskSettled(ts[u])
        THEN [ts[u] EXCEPT !.pc = "failed", !.failedAt = "aborted"]
        ELSE ts[u]]

\* lzaResourcesPromises after task t took a step: each entry is a promise
\* of its own, and a step of one leaves the others as they are
TaskStep(ts, t, task) == [ts EXCEPT ![t] = task]

\* a failure that lets the task go on with the next account
FailTaskContinuing(task, where) ==
    [task EXCEPT !.i = IF @ < Len(task.accounts) THEN @ + 1 ELSE @,
                 !.pc = IF task.i < Len(task.accounts) THEN "sts" ELSE "failed",
                 !.q = NoQueries, !.r = NoResults, !.failedAt = where]

\* the throw that ends loadRegionLzaResources: the loop over the accounts
\* is left
FailTask(task, where) ==
    [task EXCEPT !.pc = "failed", !.q = NoQueries, !.r = NoResults,
                 !.failedAt = where]

\* a failed role assumption skipping the account
AfterAssumeRoleIsolated(task, got) ==
    IF got.answer = "ok" THEN [task EXCEPT !.pc = "ssm"]
    ELSE [task EXCEPT !.i = @ + 1,
                      !.pc = IF task.i < Len(task.accounts) THEN "sts"
                             ELSE "done"]

\* the task after getCrossAccountCredentials answered
AfterAssumeRole(task, got) ==
    IF got.answer = "ok" THEN [task EXCEPT !.pc = "ssm"]
    ELSE FailTask(task, "getCrossAccountCredentials")

\* the entry written under a key that leaves out the region
CommitKeyedByAccount(cfg, accountId, region, merged) ==
    [cfg EXCEPT
       !.externalLandingZoneResources.v.resourceParameters.v =
           [k \in DOMAIN @ \cup {KeyOf(accountId, accountId)} |->
              IF k = KeyOf(accountId, accountId) THEN merged ELSE @[k]]]

\* this.externalLandingZoneResources.resourceParameters[`${accountId}-${region}`] = merged
Commit(cfg, accountId, region, merged) ==
    [cfg EXCEPT
       !.externalLandingZoneResources.v.resourceParameters.v =
           [k \in DOMAIN @ \cup {KeyOf(accountId, region)} |->
              IF k = KeyOf(accountId, region) THEN merged ELSE @[k]]]

\* getCrossAccountCredentials has answered for the task's current account;
\* on success the four getParametersByPath queries send their first request
RoleAssumed(t) ==
    /\ t \in 1..Len(tasks)
    /\ tasks[t].pc = "sts"
    /\ \E got \in AssumeRoleOutcomes :
         LET task == AfterAssumeRole(tasks[t], got)
             after == TaskStep(tasks, t, task)
         IN  /\ tasks' = after
             /\ call' = Settle([call EXCEPT
                                  !.requested =
                                      IF task.pc = "ssm"
                                      THEN @ \cup {GetParametersByPath}
                                      ELSE IF task.pc = "sts"
                                      THEN @ \cup {AssumeRole}
                                      ELSE @],
                               after, "getCrossAccountCredentials", got)
    /\ UNCHANGED <<config, assetDirs, templateDirs, nCalls, env>>

\* the results taken in the reverse of the order of ssmPromises
SsmResultsReversed(r) ==
    [k \in 1..Len(Namespaces) |-> r[Namespaces[Len(Namespaces) + 1 - k]]]

\* ssmResults: what the four queries returned, in the order of ssmPromises
SsmResults(r) == [k \in 1..Len(Namespaces) |-> r[Namespaces[k]]]

\* the four queries counted as complete when one of them is
QueriesCompleteAny(task, q) ==
    \E k \in 1..Len(Namespaces) :
        q[Namespaces[k]] =
            Len(PagesOf(ssm, task.accounts[task.i], task.region, Namespaces[k]))

QueriesComplete(task, q) ==
    \A k \in 1..Len(Namespaces) :
        q[Namespaces[k]] =
            Len(PagesOf(ssm, task.accounts[task.i], task.region, Namespaces[k]))

\* the task after Promise.all(ssmPromises) resolved: the next account's
\* role assumption, or the end
NextAccount(task) ==
    [task EXCEPT !.i = @ + 1, !.q = NoQueries, !.r = NoResults,
                 !.pc = IF task.i < Len(task.accounts) THEN "sts" ELSE "done"]

\* one page of one namespace query has answered
PageReceived(t, ns) ==
    /\ t \in 1..Len(tasks)
    /\ tasks[t].pc = "ssm"
    /\ LET task == tasks[t]
           accountId == task.accounts[task.i]
           pages == PagesOf(ssm, accountId, task.region, ns)
       IN  /\ task.q[ns] < Len(pages)
           /\ \E got \in PageOutcomes :
                LET answer == got.answer
                    q == [task.q EXCEPT ![ns] = @ + 1]
                    r == [task.r EXCEPT ![ns] = PutPage(@, pages[q[ns]], 1)]
                    nextToken == q[ns] < Len(pages)
                    complete == QueriesComplete(task, q)
                    next == IF answer # "ok"
                            THEN FailTask(task, "getParametersByPath")
                            ELSE IF complete THEN NextAccount(task)
                            ELSE [task EXCEPT !.q = q, !.r = r]
                    after == TaskStep(tasks, t, next)
                    sent == IF answer # "ok" THEN {}
                            ELSE IF nextToken THEN {GetParametersByPath}
                            ELSE IF next.pc = "sts" THEN {AssumeRole}
                            ELSE {}
                IN  /\ tasks' = after
                    /\ call' = Settle([call EXCEPT !.requested = @ \cup sent],
                                       after,
                                       "getParametersByPath", got)
                    /\ config' =
                         IF answer = "ok" /\ complete
                         THEN Commit(config, accountId, task.region,
                                     Reduce(SsmResults(r), Len(Namespaces)))
                         ELSE config
    /\ UNCHANGED <<assetDirs, templateDirs, nCalls, env>>

(***************************************************************************)
(* saveAseaResourceMapping(resources).                                     *)
(***************************************************************************)
SaveAseaResourceMapping(resources) ==
    /\ CanCall
    /\ nCalls' = nCalls + 1
    /\ tasks' = << >>
    /\ call' = IF ~ImportEnabled \/ ~HasBucket
               THEN Rejected([NewCall("saveAseaResourceMapping") EXCEPT
                                !.resources = resources],
                             "guard", "Error", 0)
               ELSE [NewCall("saveAseaResourceMapping") EXCEPT
                       !.resources = resources, !.pc = "put",
                       !.request = PutObjectRequest(resources),
                       !.requested = {PutResources}]
    /\ UNCHANGED <<config, assetDirs, templateDirs, env>>

\* s3.putObject(aseaResources.json) has answered
PutDone ==
    /\ call.op = "saveAseaResourceMapping" /\ call.pc = "put"
    /\ \E got \in PutObjectOutcomes :
         IF got.answer = "ok"
         THEN /\ bucket' = PutObject(bucket, call.request)
              /\ call' = Resolved(call)
         ELSE /\ bucket' = bucket
              /\ call' = Rejected(call, "putObject", got.answer,
                                  got.throttled)
    /\ UNCHANGED <<config, ssm, assetDirs, templateDirs, tasks, nCalls,
                   document, loaded, cdk>>

(***************************************************************************)
(* The loader calls.                                                       *)
(***************************************************************************)
NoSource == [def |-> FALSE, op |-> "none", config |-> GlobalConfigDefault]

\* source tells which Config the document was written from, when it was
NotLoaded == [op |-> "none", fileExists |-> FALSE,
              result |-> Thrown("none"), source |-> NoSource]

\* GlobalConfig.load(dir): the directory holds the document or no file
CallLoad(fileExists) ==
    /\ loaded' = [op |-> "load", fileExists |-> fileExists,
                  result |-> Load(IF fileExists THEN Defined(document)
                                  ELSE Undefined(document)),
                  source |-> loaded.source]
    /\ UNCHANGED <<config, bucket, ssm, assetDirs, templateDirs, call, tasks,
                   nCalls, document, cdk>>

CallLoadFromString ==
    /\ loaded' = [op |-> "loadFromString", fileExists |-> FALSE,
                  result |-> LoadFromString(document),
                  source |-> loaded.source]
    /\ UNCHANGED <<config, bucket, ssm, assetDirs, templateDirs, call, tasks,
                   nCalls, document, cdk>>

\* GlobalConfig.fromObject(content): the content is an object, here the one
\* a well-formed document stands for
CallFromObject ==
    /\ YamlLoad(document).error = "none"
    /\ loaded' = [op |-> "fromObject", fileExists |-> FALSE,
                  result |-> FromObject(YamlLoad(document)),
                  source |-> loaded.source]
    /\ UNCHANGED <<config, bucket, ssm, assetDirs, templateDirs, call, tasks,
                   nCalls, document, cdk>>

\* the text of a number or boolean field in a document
NumberText(n) == (CHOOSE p \in NumberTexts : p[2] = n)[1]

BoolText(b) == IF b THEN "true" ELSE "false"

\* the document of a Config: its schema fields written as a document text
DocumentOf(cfg) ==
    LET elz == cfg.externalLandingZoneResources
    IN  [wellFormed |-> TRUE,
         homeRegion |-> [def |-> TRUE, v |-> cfg.homeRegion],
         enabledRegions |-> cfg.enabledRegions,
         managementAccountAccessRole |->
             [def |-> TRUE, v |-> cfg.managementAccountAccessRole],
         cloudwatchLogRetentionInDays |->
             [def |-> TRUE, v |-> NumberText(cfg.cloudwatchLogRetentionInDays)],
         terminationProtection |->
             [def |-> cfg.terminationProtection.def,
              v |-> IF cfg.terminationProtection.def
                    THEN BoolText(cfg.terminationProtection.v) ELSE ""],
         controlTowerEnable |->
             [def |-> TRUE, v |-> BoolText(cfg.controlTower.enable)],
         loggingAccount |-> [def |-> TRUE, v |-> cfg.logging.account],
         elz |-> elz.def,
         elzImport |->
             [def |-> elz.def,
              v |-> IF elz.def
                    THEN BoolText(elz.v.importExternalLandingZoneResources)
                    ELSE ""],
         elzBucket |->
             [def |-> elz.def /\ elz.v.mappingFileBucket.def,
              v |-> IF elz.def /\ elz.v.mappingFileBucket.def
                    THEN elz.v.mappingFileBucket.v ELSE ""]]

\* the Config a loader returned is written out as the document, to be
\* loaded again
WriteBack ==
    /\ loaded.result.status = "returned"
    /\ ~loaded.source.def
    /\ document' = DocumentOf(loaded.result.config)
    /\ loaded' = [NotLoaded EXCEPT
                    !.source = [def |-> TRUE, op |-> loaded.op,
                                config |-> loaded.result.config]]
    /\ UNCHANGED <<config, bucket, ssm, assetDirs, templateDirs, call, tasks,
                   nCalls, cdk>>

(***************************************************************************)
(* The custom-resource constructs.  A node of a construct tree is known by *)
(* its stack, its scope (the stack itself or a construct nested in it) and *)
(* its id; seq numbers the constructor calls.                              *)
(***************************************************************************)
SSMDocumentType == "Custom::SSMDocument"
MacieUpdateSessionType == "Custom::MacieUpdateSession"
AssociateHostedZonesType == "Custom::AssociateHostedZones"
CreateResolverRuleType == "Custom::CreateResolverRule"

ResourceTypes == {SSMDocumentType, MacieUpdateSessionType,
                  AssociateHostedZonesType, CreateResolverRuleType}

Stacks == {"StackA", "StackB"}

\* where a construct is made: directly in the stack or in a construct of it
Scopes == {"stack", "nested"}

ConstructIds == {"First", "Second"}

RoleArns == {"arn:aws:iam::111:role/CustomResourceRole"}

NoConstructs == [nodes |-> {}, created |-> 0, thrown |-> FALSE]

\* const constructName = `${resourceType}Lambda`
ConstructName(resourceType) == resourceType \o "Lambda"

\* `${resourceType}Role`
RoleName(resourceType) == resourceType \o "Role"

\* the lookup made among the nested constructs in the place of the stack's
\* own children
TryFindChildNested(nodes, stack, constructName) ==
    {n \in nodes : n.stack = stack /\ n.scope = "nested" /\ n.id = constructName}

\* stack.node.tryFindChild(constructName): the direct children of the stack
\* that have this id
TryFindChild(nodes, stack, constructName) ==
    {n \in nodes : n.stack = stack /\ n.scope = "stack" /\ n.id = constructName}

\* new lambda.Function(stack, constructName, {...role})
LambdaFunction(stack, resourceType, roleArn, seq) ==
    [stack |-> stack, scope |-> "stack", id |-> ConstructName(resourceType),
     kind |-> "Function", type |-> resourceType, seq |-> seq,
     token |-> "", made |-> FALSE, role |-> roleArn]

\* iam.Role.fromRoleArn(stack, `${resourceType}Role`, roleArn)
StackRole(stack, resourceType, roleArn, seq) ==
    [stack |-> stack, scope |-> "stack", id |-> RoleName(resourceType),
     kind |-> "Role", type |-> resourceType, seq |-> seq,
     token |-> "", made |-> FALSE, role |-> roleArn]

\* the construct itself, with the serviceToken of its CustomResource
Instance(stack, scope, id, resourceType, roleArn, seq, token, made) ==
    [stack |-> stack, scope |-> scope, id |-> id,
     kind |-> "CustomResource", type |-> resourceType, seq |-> seq,
     token |-> token, made |-> made, role |-> roleArn]

\* the nodes this.lambdaFunction adds to the stack: none when the handler
\* is found, else the handler and, for the constructs that import the
\* role in the stack's scope, the role
HandlerNodes(nodes, stack, resourceType, roleInStack, roleArn, seq) ==
    IF TryFindChild(nodes, stack, ConstructName(resourceType)) # {} THEN {}
    ELSE {LambdaFunction(stack, resourceType, roleArn, seq)}
         \cup (IF roleInStack
               THEN {StackRole(stack, resourceType, roleArn, seq)} ELSE {})

\* new <Construct>(scope, id, props): super(scope, id) throws when the
\* scope holds the id already
NewConstruct(resourceType, roleInStack, stack, scope, id, roleArn) ==
    /\ cdk.created < MaxConstructs
    /\ LET seq == cdk.created + 1
           taken == \E n \in cdk.nodes :
                       n.stack = stack /\ n.scope = scope /\ n.id = id
           handler == HandlerNodes(cdk.nodes, stack, resourceType,
                                   roleInStack, roleArn, seq)
       IN  cdk' = IF taken
                  THEN [cdk EXCEPT !.created = seq, !.thrown = TRUE]
                  ELSE [nodes |-> cdk.nodes \cup handler \cup
                                   {Instance(stack, scope, id, resourceType,
                                             roleArn, seq,
                                             ConstructName(resourceType),
                                             handler # {})},
                        created |-> seq, thrown |-> FALSE]
    /\ UNCHANGED <<config, bucket, ssm, assetDirs, templateDirs, call, tasks,
                   nCalls, document, loaded>>

SSMDocument(stack, scope, id, roleArn) ==
    NewConstruct(SSMDocumentType, TRUE, stack, scope, id, roleArn)

MacieUpdateSession(stack, scope, id, roleArn) ==
    NewConstruct(MacieUpdateSessionType, TRUE, stack, scope, id, roleArn)

AssociateHostedZones(stack, scope, id, roleArn) ==
    NewConstruct(AssociateHostedZonesType, FALSE, stack, scope, id, roleArn)

CreateResolverRule(stack, scope, id, roleArn) ==
    NewConstruct(CreateResolverRuleType, FALSE, stack, scope, id, roleArn)

(***************************************************************************)
(* Inputs.                                                                 *)
(***************************************************************************)
Text(s) == Defined(s)

NoText == Undefined("")

\* the global-config.yaml documents given to the loader
DocumentTexts ==
    [homeRegion : {Text("ca-central-1"), Text("us-east-1"), Text("true"), NoText},
     enabledRegions : {<< >>, <<"ca-central-1">>,
                       <<"us-east-1", "ca-central-1">>, <<"mars-1">>},
     managementAccountAccessRole : {Text("AWSControlTowerExecution"), Text("7")},
     cloudwatchLogRetentionInDays : {Text("3653")},
     terminationProtection : {NoText, Text("false")},
     controlTowerEnable : {Text("true"), Text("false"), Text("yes")},
     loggingAccount : {Text("LogArchive"), Text("Audit")},
     elz : {FALSE},
     elzImport : {Text("true")},
     elzBucket : {NoText},
     wellFormed : {TRUE}]
    \cup
    [homeRegion : {Text("ca-central-1")},
     enabledRegions : {<<"ca-central-1">>},
     managementAccountAccessRole : {Text("AWSControlTowerExecution")},
     cloudwatchLogRetentionInDays : {Text("3653"), Text("7"), Text("seven")},
     terminationProtection : {NoText},
     controlTowerEnable : {Text("true")},
     loggingAccount : {Text("LogArchive")},
     elz : {TRUE},
     elzImport : {Text("true"), Text("false"), Text("on")},
     elzBucket : {NoText, Text("bucket")},
     wellFormed : {TRUE}]
    \cup
    [homeRegion : {Text("ca-central-1"), NoText},
     enabledRegions : {<<"ca-central-1">>},
     managementAccountAccessRole : {Text("AWSControlTowerExecution")},
     cloudwatchLogRetentionInDays : {Text("3653")},
     terminationProtection : {NoText},
     controlTowerEnable : {Text("true")},
     loggingAccount : {Text("LogArchive")},
     elz : {FALSE},
     elzImport : {NoText},
     elzBucket : {NoText},
     wellFormed : {FALSE}]

\* the documents of the Config objects the reconciler is run on
ReconcilerDocuments ==
    [homeRegion : {Text("ca-central-1")},
     enabledRegions : {<< >>, <<"ca-central-1">>,
                       <<"ca-central-1", "us-east-1">>},
     managementAccountAccessRole : {Text("AWSControlTowerExecution")},
     cloudwatchLogRetentionInDays : {Text("3653")},
     terminationProtection : {NoText},
     controlTowerEnable : {Text("true")},
     loggingAccount : {Text("LogArchive")},
     elz : {TRUE},
     elzImport : {Text("true"), Text("false")},
     elzBucket : {NoText, Text("bucket")},
     wellFormed : {TRUE}]
    \cup
    [homeRegion : {Text("ca-central-1")},
     enabledRegions : {<<"ca-central-1", "us-east-1">>},
     managementAccountAccessRole : {Text("AWSControlTowerExecution")},
     cloudwatchLogRetentionInDays : {Text("3653")},
     terminationProtection : {NoText},
     controlTowerEnable : {Text("true")},
     loggingAccount : {Text("LogArchive")},
     elz : {FALSE},
     elzImport : {NoText},
     elzBucket : {NoText},
     wellFormed : {TRUE}]

\* what the mapping bucket holds
Buckets ==
    [mapping : {NoJson} \cup {SomeJson(m) : m \in Mappings},
     resources : {NoJson} \cup {SomeJson(l) : l \in ResourceLists \ {<< >>}}]

(***************************************************************************)
(* The reconciler: a Config object made by fromObject, then reconciler     *)
(* calls on it.                                                            *)
(***************************************************************************)
Init ==
    /\ document \in ReconcilerDocuments
    /\ config = FromObject(YamlLoad(document)).config
    /\ bucket \in Buckets
    /\ Len(document.enabledRegions) * Len(bucket.mapping.v) <= MaxPairs
    /\ ssm \in SsmStores
    \* the paged store is met in the runs of one account and one region
    /\ ssm # StoreOnePage =>
          /\ ImportEnabled
          /\ bucket.mapping = SomeJson(MappingNested)
          /\ bucket.resources.def
          /\ document.enabledRegions = <<"ca-central-1">>
    \* the mapping of one stack name in two regions is met in the runs of
    \* one enabled region and a bucket with a resource list
    /\ bucket.mapping = SomeJson(MappingTwoRegions) =>
          /\ ImportEnabled
          /\ bucket.resources.def
          /\ document.enabledRegions = <<"ca-central-1">>
    /\ assetDirs = << >>
    /\ templateDirs = << >>
    /\ call = IdleCall
    /\ tasks = << >>
    /\ nCalls = 0
    /\ loaded = NotLoaded
    /\ cdk = NoConstructs

Next ==
    \/ \E loadFromCache \in BOOLEAN : LoadExternalMapping(loadFromCache)
    \/ MkdtempDone
    \/ MappingFetched
    \/ ResourcesFetched
    \/ LoadLzaResources
    \/ \E t \in 1..Len(tasks) : RoleAssumed(t)
    \/ \E t \in 1..Len(tasks), k \in 1..Len(Namespaces) :
          PageReceived(t, Namespaces[k])
    \/ \E resources \in ResourceLists : SaveAseaResourceMapping(resources)
    \/ PutDone

Spec == Init /\ [][Next]_vars

(***************************************************************************)
(* The loader: one document, then loader calls on it.                      *)
(***************************************************************************)
InitLoader ==
    /\ document \in DocumentTexts
    /\ config = GlobalConfigDefault
    /\ bucket = [mapping |-> NoJson, resources |-> NoJson]
    /\ ssm = StoreOnePage
    /\ assetDirs = << >>
    /\ templateDirs = << >>
    /\ call = IdleCall
    /\ tasks = << >>
    /\ nCalls = 0
    /\ loaded = NotLoaded
    /\ cdk = NoConstructs

NextLoader ==
    \/ \E fileExists \in BOOLEAN : CallLoad(fileExists)
    \/ CallLoadFromString
    \/ CallFromObject
    \/ WriteBack

SpecLoader == InitLoader /\ [][NextLoader]_vars

(***************************************************************************)
(* The constructs: stacks that start empty, then constructor calls.        *)
(***************************************************************************)
InitCdk ==
    /\ document \in {d \in ReconcilerDocuments : ~d.elz}
    /\ config = FromObject(YamlLoad(document)).config
    /\ bucket = [mapping |-> NoJson, resources |-> NoJson]
    /\ ssm = StoreOnePage
    /\ assetDirs = << >>
    /\ templateDirs = << >>
    /\ call = IdleCall
    /\ tasks = << >>
    /\ nCalls = 0
    /\ loaded = NotLoaded
    /\ cdk = NoConstructs

NextCdk ==
    \E stack \in Stacks, scope \in Scopes, id \in ConstructIds,
       roleArn \in RoleArns :
        \/ SSMDocument(stack, scope, id, roleArn)
        \/ MacieUpdateSession(stack, scope, id, roleArn)
        \/ AssociateHostedZones(stack, scope, id, roleArn)
        \/ CreateResolverRule(stack, scope, id, roleArn)

SpecCdk == InitCdk /\ [][NextCdk]_vars

(***************************************************************************)
(* Properties of the reconciler (specification Spec).                      *)
(***************************************************************************)
PreElz == call.pre.externalLandingZoneResources

\* import was enabled on the Config when the call was made
PreImport == PreElz.def /\ PreElz.v.importExternalLandingZoneResources

Parameters == Elz.v.resourceParameters.v

PreParameters == PreElz.v.resourceParameters.v

SomeTaskFailed == \E t \in 1..Len(tasks) : tasks[t].pc = "failed"

\* the keys of the account/region pairs the tasks have completed
WrittenKeys ==
    UNION {{KeyOf(tasks[t].accounts[j], tasks[t].region) :
               j \in 1..(tasks[t].i - 1)} : t \in 1..Len(tasks)}

MappingAccountIds(mapping) == [i \in 1..Len(mapping.v) |-> mapping.v[i].accountId]

S3Requests == {GetMapping, GetResources, PutResources}

\* both cache files of a directory an earlier call wrote exist
CachePersisted ==
    \E d \in 1..Len(call.preAssetDirs) :
        /\ call.preAssetDirs[d].mapping.def
        /\ call.preAssetDirs[d].resources.def

\* C1 as stated: when a region task of loadLzaResources has failed, the
\* call has failed and resourceParameters is what it was before the call
C1_NoPartialCommit ==
    (call.op = "loadLzaResources" /\ SomeTaskFailed) =>
        /\ call.status = "rejected"
        /\ Parameters = PreParameters

\* C1 amended: when a region task has failed the call has failed, and
\* resourceParameters holds the entries that were there before the call
\* together with one entry for every account/region pair whose queries
\* completed, those of a failed call included
C1_CompletedPairsAreKept ==
    (call.op = "loadLzaResources" /\ PreImport) =>
        /\ SomeTaskFailed => call.status = "rejected"
        /\ DOMAIN Parameters = DOMAIN PreParameters \cup WrittenKeys
        /\ \A k \in DOMAIN PreParameters \ WrittenKeys :
              Parameters[k] = PreParameters[k]

C1_Witness ==
    /\ call.op = "loadLzaResources"
    /\ SomeTaskFailed
    /\ call.status = "rejected"
    /\ WrittenKeys # {}
    /\ Parameters # PreParameters

\* C2 as stated: after a failed loadExternalMapping templateMap,
\* resourceList and accountsDeployedExternally are what they were before
C2_FailureLeavesStateUntouched ==
    (call.op = "loadExternalMapping" /\ call.status = "rejected") =>
        /\ Elz.v.templateMap = PreElz.v.templateMap
        /\ Elz.v.resourceList = PreElz.v.resourceList
        /\ Elz.v.accountsDeployedExternally =
               PreElz.v.accountsDeployedExternally

\* C2 amended: after a failed loadExternalMapping accountsDeployedExternally
\* has been reset and holds the account ids pushed up to the failure;
\* templateMap is unchanged when the failure came before the end of
\* setTemplateMap, resourceList when it came before the end of the
\* resource-list fetch; a failed cache write leaves all three replaced
C2_FailureLeavesPartialState ==
    (call.op = "loadExternalMapping" /\ call.status = "rejected") =>
        LET now == Elz.v
            ids == MappingAccountIds(bucket.mapping)
            accounts == now.accountsDeployedExternally
        IN  /\ accounts.def
            /\ call.failedAt \in {"mkdtemp", "mapping.json", "setTemplateMap",
                                  "aseaResources.json", "writeFileSync"}
            /\ call.failedAt \in {"mkdtemp", "mapping.json"} =>
                  /\ accounts.v = << >>
                  /\ now.templateMap = PreElz.v.templateMap
                  /\ now.resourceList = PreElz.v.resourceList
            /\ call.failedAt = "setTemplateMap" =>
                  /\ Len(accounts.v) <= Len(ids)
                  /\ accounts.v = SubSeq(ids, 1, Len(accounts.v))
                  /\ now.templateMap = PreElz.v.templateMap
                  /\ now.resourceList = PreElz.v.resourceList
            /\ call.failedAt = "aseaResources.json" =>
                  /\ accounts.v = ids
                  /\ now.templateMap.def
                  /\ Len(now.templateMap.v) = StackCount(bucket.mapping.v, 1)
                  /\ now.resourceList = PreElz.v.resourceList
            /\ call.failedAt = "writeFileSync" =>
                  /\ accounts.v = ids
                  /\ now.templateMap.def
                  /\ now.resourceList.def

C2_Witness ==
    /\ call.op = "loadExternalMapping"
    /\ call.status = "rejected"
    /\ call.failedAt = "aseaResources.json"
    /\ Elz.v.templateMap # PreElz.v.templateMap
    /\ Elz.v.accountsDeployedExternally.v # << >>

\* C3: with import enabled, loadLzaResources has one task per entry of
\* enabledRegions from the moment it is called, it has resolved only when
\* every task is done, and it has failed when a task has failed
C3_OneTaskPerRegion ==
    (call.op = "loadLzaResources" /\ PreImport) =>
        /\ Len(tasks) = Len(config.enabledRegions)
        /\ call.launched = Len(config.enabledRegions)
        /\ \A t \in 1..Len(tasks) : tasks[t].region = config.enabledRegions[t]
        /\ call.status = "resolved" =>
              \A t \in 1..Len(tasks) : tasks[t].pc = "done"
        /\ SomeTaskFailed => call.status = "rejected"
        /\ call.status = "running" =>
              \E t \in 1..Len(tasks) : ~TaskSettled(tasks[t])

C3_Witness ==
    /\ call.op = "loadLzaResources"
    /\ call.status = "resolved"
    /\ Len(tasks) = 2
    /\ \A t \in 1..Len(tasks) : tasks[t].pc = "done" /\ tasks[t].i > 1

\* C4: a resolved loadExternalMapping(true) that was called when an earlier
\* call had written both cache files has read the cache and has sent no
\* request
C4_CachedRunSkipsRemote ==
    (/\ call.op = "loadExternalMapping"
     /\ call.loadFromCache
     /\ PreImport
     /\ CachePersisted
     /\ call.status = "resolved") =>
        /\ call.usedCache
        /\ call.requested = {}

\* C5: loadExternalMapping called with loadFromCache true while both cache
\* files exist sends no object-storage request
C5_CacheShortCircuit ==
    (/\ call.op = "loadExternalMapping"
     /\ call.loadFromCache
     /\ CachePersisted) =>
        call.requested \cap S3Requests = {}

\* C6: loadExternalMapping and loadLzaResources called with import disabled
\* or the section absent resolve at once, send no request, create no
\* directory or file and leave the Config as it was
C6_DisabledImportIsNoOp ==
    (call.op \in {"loadExternalMapping", "loadLzaResources"} /\ ~PreImport) =>
        /\ call.status = "resolved"
        /\ call.requested = {}
        /\ assetDirs = call.preAssetDirs
        /\ templateDirs = call.preTemplateDirs
        /\ bucket = call.preBucket
        /\ config = call.pre
        /\ tasks = << >>

C6_Witness ==
    /\ call.op = "loadExternalMapping"
    /\ PreElz.def
    /\ ~PreElz.v.importExternalLandingZoneResources
    /\ PreElz.v.mappingFileBucket.def
    /\ bucket.mapping.def
    /\ call.status = "resolved"

\* C7: in a loadExternalMapping that fetches from the bucket, NoSuchKey
\* for aseaResources.json gives an empty resourceList and does not fail
\* the call; every other error of that fetch fails the call and leaves
\* resourceList alone, and the call never resolves when mapping.json is
\* missing
C7_OnlyResourceListNotFoundAbsorbed ==
    (call.op = "loadExternalMapping" /\ PreImport) =>
        /\ call.resourceFetch = "NoSuchKey" =>
              /\ Elz.v.resourceList = Defined(<< >>)
              /\ call.failedAt \in {"none", "writeFileSync"}
        /\ call.resourceFetch \in {"AccessDenied", "Throttling"} =>
              /\ call.status = "rejected"
              /\ call.failedAt = "aseaResources.json"
              /\ Elz.v.resourceList = PreElz.v.resourceList
        /\ ~bucket.mapping.def => call.status # "resolved"
        /\ call.status = "resolved" =>
              /\ call.mapping = bucket.mapping
              /\ call.resourceFetch \in {"ok", "NoSuchKey"}

C7_Witness ==
    /\ call.op = "loadExternalMapping"
    /\ call.status = "resolved"
    /\ call.resourceFetch = "NoSuchKey"
    /\ ~bucket.resources.def
    /\ Elz.v.resourceList = Defined(<< >>)

\* C8: when the role assumption of a task has failed the call has failed,
\* and a resolved call has written the entry of every account/region pair
C8_FailedAssumptionFailsCall ==
    (call.op = "loadLzaResources" /\ PreImport) =>
        /\ \A t \in 1..Len(tasks) :
              tasks[t].failedAt = "getCrossAccountCredentials" =>
                  call.status = "rejected"
        /\ call.status = "resolved" =>
              \A t \in 1..Len(tasks) : \A j \in 1..Len(tasks[t].accounts) :
                  KeyOf(tasks[t].accounts[j], tasks[t].region)
                      \in DOMAIN Parameters

C8_Witness ==
    /\ call.op = "loadLzaResources"
    /\ call.status = "rejected"
    /\ \E t, u \in 1..Len(tasks) :
          /\ tasks[t].failedAt = "getCrossAccountCredentials"
          /\ tasks[u].pc = "done"
          /\ tasks[u].i > 1

\* C9 as stated: a call fails with a throttling error only when the
\* request was throttled as often as the backoff policy retries
C9_EveryRequestBackedOff ==
    call.error = "Throttling" => call.throttled >= BackoffAttempts

\* C9 amended: the role assumption and the parameter-store page requests
\* go through throttlingBackOff, and a call fails with a throttling error
\* of theirs only when the attempts of the policy are used up; the
\* object-storage get and put requests are sent without it
C9_StsAndSsmBackedOff ==
    (/\ call.error = "Throttling"
     /\ call.failedAt \in {"getCrossAccountCredentials", "getParametersByPath"})
        => call.throttled >= BackoffAttempts

C9_Witness ==
    /\ call.op = "loadLzaResources"
    /\ call.status = "rejected"
    /\ call.error = "Throttling"
    /\ call.failedAt = "getCrossAccountCredentials"
    /\ call.throttled >= BackoffAttempts

(***************************************************************************)
(* Properties of the loader (specification SpecLoader).                    *)
(***************************************************************************)
\* the document as yaml.load gives it
Raw == YamlLoad(document)

\* C10: load, loadFromString and fromObject return a Config for every
\* document that conforms to the schema, and its homeRegion,
\* managementAccountAccessRole and controlTower.enable are not empty and
\* are the values of the document
C10_RequiredFieldsKept ==
    loaded.op # "none" =>
        /\ (/\ Raw.error = "none"
            /\ Conforms(Raw)
            /\ loaded.op = "load" => loaded.fileExists)
              <=> loaded.result.status = "returned"
        /\ loaded.result.status = "returned" =>
              /\ Raw.homeRegion.t = "string"
              /\ loaded.result.config.homeRegion = Raw.homeRegion.s
              /\ loaded.result.config.homeRegion # ""
              /\ Raw.managementAccountAccessRole.t = "string"
              /\ loaded.result.config.managementAccountAccessRole =
                     Raw.managementAccountAccessRole.s
              /\ loaded.result.config.managementAccountAccessRole # ""
              /\ Raw.controlTowerEnable.t = "boolean"
              /\ loaded.result.config.controlTower.enable =
                     Raw.controlTowerEnable.b

C10_Witness ==
    /\ loaded.op = "loadFromString"
    /\ loaded.result.status = "returned"
    /\ loaded.result.config.homeRegion = "us-east-1"
    /\ loaded.result.config.controlTower.enable = FALSE
    /\ document.enabledRegions = <<"ca-central-1">>

C23_ElzStateCreatedEmpty ==
    (/\ loaded.op \in {"load", "fromObject"}
     /\ loaded.result.status = "returned"
     /\ loaded.result.config.externalLandingZoneResources.def) =>
        LET elz == loaded.result.config.externalLandingZoneResources.v
        IN  /\ elz.templateMap = Defined(<< >>)
            /\ elz.resourceList = Defined(<< >>)
            /\ elz.accountsDeployedExternally = Defined(<< >>)
            /\ elz.resourceParameters = Defined(EmptyResourceParameters)

\* the fields the constructor sets from its props
PropsFields ==
    {"homeRegion", "enabledRegions", "controlTower",
     "managementAccountAccessRole"}

\* C29: a Config loadFromString returns has the document's homeRegion as
\* its only enabled region, no control tower controls, and the class
\* default in every field but homeRegion, enabledRegions, controlTower and
\* managementAccountAccessRole, whatever the document holds for them
C29_LoadFromStringKeepsPropsOnly ==
    (loaded.op = "loadFromString" /\ loaded.result.status = "returned") =>
        LET cfg == loaded.result.config
        IN  /\ cfg.homeRegion = Raw.homeRegion.s
            /\ cfg.enabledRegions = <<Raw.homeRegion.s>>
            /\ cfg.controlTower.controls = Defined(<< >>)
            /\ cfg.controlTower.enable = Raw.controlTowerEnable.b
            /\ cfg.managementAccountAccessRole =
                   Raw.managementAccountAccessRole.s
            /\ \A f \in DOMAIN cfg \ PropsFields :
                   cfg[f] = GlobalConfigDefault[f]

\* a document with a logging account of its own and two enabled regions
C29_Witness ==
    /\ loaded.op = "loadFromString"
    /\ loaded.result.status = "returned"
    /\ Raw.loggingAccount.s = "Audit"
    /\ document.enabledRegions = <<"us-east-1", "ca-central-1">>
    /\ loaded.result.config.enabledRegions = <<"ca-central-1">>
    /\ loaded.result.config.logging = LoggingDefault

\* C12: loadFromString ends in a returned Config or in a throw, never in
\* undefined: when yaml.load throws or the document does not conform it
\* throws the one generic error, which is neither yaml.load's nor the
\* validation's, and for every other document it returns a Config
C12_LoadFromStringThrowsGeneric ==
    loaded.op = "loadFromString" =>
        /\ loaded.result.status \in {"returned", "thrown"}
        /\ (Raw.error # "none" \/ ~Conforms(Raw)) =>
              /\ loaded.result.status = "thrown"
              /\ loaded.result.error = "Could not load global configuration"
              /\ loaded.result.error \notin
                     {Raw.error, "SchemaValidationError", "YAMLException"}
        /\ (Raw.error = "none" /\ Conforms(Raw)) =>
              /\ loaded.result.status = "returned"
              /\ loaded.result.error = "none"
              /\ loaded.result.config.homeRegion = Raw.homeRegion.s

C12_Witness ==
    /\ loaded.op = "loadFromString"
    /\ loaded.result.status = "thrown"
    /\ loaded.result.error = "Could not load global configuration"
    /\ Raw.error = "YAMLException"

\* C13: in every Config a loader returns, homeRegion is an element of
\* enabledRegions
C13_HomeRegionEnabled ==
    (loaded.op # "none" /\ loaded.result.status = "returned") =>
        \E i \in 1..Len(loaded.result.config.enabledRegions) :
            loaded.result.config.enabledRegions[i] =
                loaded.result.config.homeRegion

\* C14: saveAseaResourceMapping called with import disabled or without a
\* mapping bucket throws without sending a request; otherwise it sends one
\* put of aseaResources.json with server-side encryption, and when it has
\* resolved the bucket holds the given list under that key; the Config is
\* never changed
C14_SaveWritesEncryptedObject ==
    call.op = "saveAseaResourceMapping" =>
        /\ config = call.pre
        /\ (~PreImport \/ ~PreElz.v.mappingFileBucket.def) =>
              /\ call.status = "rejected"
              /\ call.failedAt = "guard"
              /\ call.requested = {}
              /\ bucket = call.preBucket
        /\ (PreImport /\ PreElz.v.mappingFileBucket.def) =>
              /\ call.requested = {PutResources}
              /\ call.request.Key = "aseaResources.json"
              /\ call.request.Body = call.resources
              /\ call.request.ServerSideEncryption = "AES256"
              /\ bucket.mapping = call.preBucket.mapping
              /\ call.status = "resolved" =>
                    bucket.resources = SomeJson(call.resources)
              /\ call.status # "resolved" =>
                    bucket.resources = call.preBucket.resources

C14_Witness ==
    /\ call.op = "saveAseaResourceMapping"
    /\ call.status = "resolved"
    /\ call.resources # << >>
    /\ ~call.preBucket.resources.def
    /\ bucket.resources = SomeJson(call.resources)

\* a request of task t is outstanding and its answer can arrive
CanStep(t) ==
    \/ ENABLED RoleAssumed(t)
    \/ \E k \in 1..Len(Namespaces) : ENABLED PageReceived(t, Namespaces[k])

\* C15: a launched task that has not ended can always take its next step,
\* also when the call has been rejected by another task's failure, and
\* no step changes a task other than the one whose request was answered;
\* a task is failed only by a request of its own
C15_NoCancellation ==
    /\ [](\A t \in 1..Len(tasks) :
            /\ ~TaskSettled(tasks[t]) => CanStep(t)
            /\ tasks[t].pc = "failed" <=>
                  tasks[t].failedAt \in {"getCrossAccountCredentials",
                                         "getParametersByPath"})
    /\ [][\A t \in 1..Len(tasks) :
            ~TaskSettled(tasks[t]) =>
                /\ t \in 1..Len(tasks')
                /\ \/ tasks'[t] = tasks[t]
                   \/ \A u \in 1..Len(tasks) \ {t} : tasks'[u] = tasks[u]]_vars

C15_Witness ==
    /\ call.op = "loadLzaResources"
    /\ call.status = "rejected"
    /\ \E t, u \in 1..Len(tasks) :
          /\ tasks[t].pc = "failed"
          /\ tasks[u].pc = "ssm"
          /\ \E k \in 1..Len(Namespaces) : tasks[u].q[Namespaces[k]] > 0

\* the key of the account/region pair a task is working on
CurrentKey(task) == KeyOf(task.accounts[task.i], task.region)

\* all pages of the four namespaces of a pair, merged in the order of the
\* namespaces
Expected(accountId, region) ==
    Reduce([k \in 1..Len(Namespaces) |->
               LET pages == PagesOf(ssm, accountId, region, Namespaces[k])
               IN  PagesMerged(pages, Len(pages))],
           Len(Namespaces))

\* the call has not written the entry of this key
Untouched(k) ==
    /\ k \in DOMAIN Parameters <=> k \in DOMAIN PreParameters
    /\ k \in DOMAIN Parameters => Parameters[k] = PreParameters[k]

\* C17: while a pair is being reconciled each of its four queries that
\* has pages left can be answered next, whatever the others have done, and
\* the entry of the pair is not written; it is not written either when one
\* of the queries has failed; the entry of every finished pair is the
\* merge of all pages of all four namespaces
C17_CommitAfterAllFour ==
    (call.op = "loadLzaResources" /\ PreImport) =>
        \A t \in 1..Len(tasks) :
            /\ tasks[t].pc = "ssm" =>
                  /\ \A k \in 1..Len(Namespaces) :
                        tasks[t].q[Namespaces[k]] <
                            Len(PagesOf(ssm, tasks[t].accounts[tasks[t].i],
                                        tasks[t].region, Namespaces[k]))
                        => ENABLED PageReceived(t, Namespaces[k])
                  /\ ~QueriesComplete(tasks[t], tasks[t].q)
                  /\ Untouched(CurrentKey(tasks[t]))
            /\ tasks[t].failedAt = "getParametersByPath" =>
                  Untouched(CurrentKey(tasks[t]))
            /\ \A j \in 1..(tasks[t].i - 1) :
                  Parameters[KeyOf(tasks[t].accounts[j], tasks[t].region)] =
                      Expected(tasks[t].accounts[j], tasks[t].region)

C17_Witness ==
    /\ call.op = "loadLzaResources"
    /\ \E t \in 1..Len(tasks) :
          /\ tasks[t].pc = "ssm"
          /\ tasks[t].q["VPC_PEERING"] = 1
          /\ tasks[t].q["TRANSIT_GATEWAY"] = 1
          /\ tasks[t].q["IAM"] = 0
          /\ CurrentKey(tasks[t]) \notin DOMAIN Parameters

\* the pages among the first count that hold the name
PagesWith(pages, count, name) ==
    {p \in 1..count : \E k \in 1..Len(pages[p]) : pages[p][k].Name = name}

Last(numbers) == CHOOSE n \in numbers : \A m \in numbers : m <= n

\* the value the name has on the last of the first count pages holding it
LastValue(pages, count, name) ==
    LET page == pages[Last(PagesWith(pages, count, name))]
    IN  page[Last({k \in 1..Len(page) : page[k].Name = name})].Value

NamesOn(pages, count) ==
    UNION {{pages[p][k].Name : k \in 1..Len(pages[p])} : p \in 1..count}

\* C18: a namespace query has received no more pages than there are; after
\* a page with a token its next request is out, after the page without a
\* token none is; it holds the names of all pages received, each with the
\* value of the last page that has it
C18_PagesMergedLastWins ==
    \A t \in 1..Len(tasks) :
        tasks[t].pc = "ssm" =>
            \A k \in 1..Len(Namespaces) :
                LET ns == Namespaces[k]
                    pages == PagesOf(ssm, tasks[t].accounts[tasks[t].i],
                                     tasks[t].region, ns)
                    count == tasks[t].q[ns]
                    parameters == tasks[t].r[ns]
                IN  /\ count <= Len(pages)
                    /\ (0 < count /\ count < Len(pages)) =>
                          ENABLED PageReceived(t, ns)
                    /\ count = Len(pages) => ~ENABLED PageReceived(t, ns)
                    /\ DOMAIN parameters = NamesOn(pages, count)
                    /\ \A name \in DOMAIN parameters :
                          parameters[name] = LastValue(pages, count, name)

C18_Witness ==
    /\ ssm = StoreThreePages
    /\ \E t \in 1..Len(tasks) :
          /\ tasks[t].pc = "ssm"
          /\ tasks[t].q["IAM"] = 3
          /\ DOMAIN tasks[t].r["IAM"] = {"role", "VPC"}
          /\ tasks[t].r["IAM"]["role"][3] = "v3"
          /\ tasks[t].q["VPC"] = 0

\* the stacks of a mapping in the order setTemplateMap meets them, each
\* with the index of its account
RECURSIVE StacksInOrder(_, _)
StacksInOrder(mappingJson, i) ==
    IF i > Len(mappingJson) THEN << >>
    ELSE [j \in 1..Len(mappingJson[i].stacksAndResourceMapList) |->
             [account |-> i,
              stack |-> mappingJson[i].stacksAndResourceMapList[j]]]
         \o StacksInOrder(mappingJson, i + 1)

\* the nested-stack physical ids among the resources of one account
CollectedIds(account) ==
    UNION {{account.stacksAndResourceMapList[j].resourceMap[k].physicalResourceId :
              k \in {k \in 1..Len(account.stacksAndResourceMapList[j].resourceMap) :
                       account.stacksAndResourceMapList[j].resourceMap[k].resourceType
                           = NestedStackType}} :
           j \in 1..Len(account.stacksAndResourceMapList)}

\* the stack name stands as ":stack/<stackName>/" in a nested-stack id of
\* the stack's own account or of an account processed after it
NamedInCollectedId(mappingJson, entry) ==
    \E i \in entry.account..Len(mappingJson) :
        \E physicalId \in CollectedIds(mappingJson[i]) :
            Includes(physicalId, StackMarker \o entry.stack.stackName \o <<"/">>)

\* C19: in the template map made from the bucket's mapping, a stack is
\* marked nested exactly when it has a parentStack or its name stands in a
\* collected nested-stack id
C19_EveryNamedStackMarked ==
    (/\ Elz.def
     /\ Elz.v.templateMap.def
     /\ bucket.mapping.def
     /\ Len(Elz.v.templateMap.v) = StackCount(bucket.mapping.v, 1)) =>
        LET entries == StacksInOrder(bucket.mapping.v, 1)
        IN  \A n \in 1..Len(entries) :
                Elz.v.templateMap.v[n].nestedStack
                    <=> (\/ entries[n].stack.parentStack.def
                         \/ NamedInCollectedId(bucket.mapping.v, entries[n]))

\* the 1-based positions at which "Phase" stands in a stack name
PhasePositions(stackName) ==
    {p \in 1..(Len(stackName) - 4) :
        \A k \in 1..5 : stackName[p + k - 1] = PhaseWord[k]}

\* the 1-based position of the character after the first "Phase"
AfterFirstPhase(stackName) ==
    (CHOOSE p \in PhasePositions(stackName) :
        \A q \in PhasePositions(stackName) : p <= q) + 5

DigitValue(c) ==
    CASE c = "0" -> 0 [] c = "1" -> 1 [] c = "2" -> 2 [] c = "3" -> 3
      [] c = "4" -> 4 [] c = "5" -> 5 [] c = "6" -> 6 [] c = "7" -> 7
      [] c = "8" -> 8 [] c = "9" -> 9

DigitChars == {"0", "1", "2", "3", "4", "5", "6", "7", "8", "9"}

\* C20: a stack whose name has a digit after its first "Phase" gets that
\* digit as its phase, and one whose name has "-" there gets phase -1
C20_PhaseFromFollowingCharacter ==
    (Elz.def /\ Elz.v.templateMap.def) =>
        \A n \in 1..Len(Elz.v.templateMap.v) :
            LET stack == Elz.v.templateMap.v[n]
                at == AfterFirstPhase(stack.stackName)
            IN  (PhasePositions(stack.stackName) # {}
                    /\ at <= Len(stack.stackName)) =>
                    /\ stack.stackName[at] = "-" => stack.phase = Num(-1)
                    /\ stack.stackName[at] \in DigitChars =>
                          stack.phase = Num(DigitValue(stack.stackName[at]))

C20_Witness ==
    /\ Elz.def
    /\ Elz.v.templateMap.def
    /\ \E n \in 1..Len(Elz.v.templateMap.v) :
          /\ Elz.v.templateMap.v[n].stackName = NamePhaseDash
          /\ Elz.v.templateMap.v[n].phase = Num(-1)

\* C21: every stack whose name has no "Phase" gets one and the same phase,
\* the one the name "Ops" gets
C21_OneSentinelWithoutPhase ==
    (Elz.def /\ Elz.v.templateMap.def) =>
        \A n \in 1..Len(Elz.v.templateMap.v) :
            PhasePositions(Elz.v.templateMap.v[n].stackName) = {} =>
                Elz.v.templateMap.v[n].phase = PhaseOf(NameOps)

\* C22: after a successful loadExternalMapping with import enabled,
\* accountsDeployedExternally is the account ids of the bucket's mapping in
\* mapping order and templateMap has one descriptor per stack entry of the
\* mapping, in order, whatever the calls before have left
C22_NothingAccumulates ==
    (/\ call.op = "loadExternalMapping"
     /\ call.status = "resolved"
     /\ PreImport) =>
        LET entries == StacksInOrder(bucket.mapping.v, 1)
        IN  /\ bucket.mapping.def
            /\ Elz.v.accountsDeployedExternally =
                   Defined(MappingAccountIds(bucket.mapping))
            /\ Elz.v.templateMap.def
            /\ Len(Elz.v.templateMap.v) = Len(entries)
            /\ \A n \in 1..Len(entries) :
                  LET stack == Elz.v.templateMap.v[n]
                      account == bucket.mapping.v[entries[n].account]
                  IN  /\ stack.accountId = account.accountId
                      /\ stack.accountKey = account.accountKey
                      /\ stack.stackName = entries[n].stack.stackName
                      /\ stack.region = entries[n].stack.region
                      /\ stack.resources = entries[n].stack.resourceMap

\* the second of two successful calls
C22_Witness ==
    /\ call.op = "loadExternalMapping"
    /\ call.status = "resolved"
    /\ nCalls = 2
    /\ PreImport
    /\ PreElz.v.resourceList.def
    /\ PreElz.v.templateMap.def
    /\ Len(PreElz.v.accountsDeployedExternally.v) = 2
    /\ Len(Elz.v.accountsDeployedExternally.v) = 2

\* a step within the loadLzaResources call that has settled
AfterSettled(status) ==
    /\ call.op = "loadLzaResources"
    /\ call.status = status
    /\ nCalls' = nCalls

\* C24 as stated: once loadLzaResources has resolved or rejected, no step
\* writes to resourceParameters
C24_NoWriteAfterSettled ==
    [][(AfterSettled("resolved") \/ AfterSettled("rejected")) =>
           Elz'.v.resourceParameters = Elz.v.resourceParameters]_vars

\* C24: once loadLzaResources has resolved every task has ended and nothing
\* is written; once it has rejected, a step that writes is the step of a
\* task still running, which adds the entry of its own pair and no other
C24_WritesAfterRejectionOnly ==
    /\ [][AfterSettled("resolved") =>
             Elz'.v.resourceParameters = Elz.v.resourceParameters]_vars
    /\ []((call.op = "loadLzaResources" /\ call.status = "resolved") =>
             \A t \in 1..Len(tasks) : tasks[t].pc = "done")
    /\ [][(AfterSettled("rejected")
             /\ Elz'.v.resourceParameters # Elz.v.resourceParameters) =>
             \E t \in 1..Len(tasks) :
                 /\ tasks[t].pc = "ssm"
                 /\ tasks'[t].i = tasks[t].i + 1
                 /\ Elz'.v.resourceParameters.v =
                        [k \in DOMAIN Parameters \cup {CurrentKey(tasks[t])} |->
                            IF k = CurrentKey(tasks[t])
                            THEN Expected(tasks[t].accounts[tasks[t].i],
                                          tasks[t].region)
                            ELSE Parameters[k]]]_vars

\* the call has rejected and the next answer to a task still running
\* writes the entry of its pair
C24_Witness ==
    /\ call.op = "loadLzaResources"
    /\ call.status = "rejected"
    /\ \E t \in 1..Len(tasks) :
          /\ tasks[t].pc = "ssm"
          /\ CurrentKey(tasks[t]) \notin DOMAIN Parameters
          /\ tasks[t].q["IAM"] = 1
          /\ tasks[t].q["VPC"] = 1
          /\ tasks[t].q["TRANSIT_GATEWAY"] = 1
          /\ tasks[t].q["VPC_PEERING"] = 0
          /\ ENABLED PageReceived(t, "VPC_PEERING")

\* accountsDeployedExternally as it stood when the call was made
PreAccounts ==
    IF PreElz.v.accountsDeployedExternally.def
    THEN PreElz.v.accountsDeployedExternally.v
    ELSE << >>

TaskCanStep(t) ==
    \/ ENABLED RoleAssumed(t)
    \/ \E k \in 1..Len(Namespaces) : ENABLED PageReceived(t, Namespaces[k])

\* C26: a region task goes through accountsDeployedExternally in order, one
\* account at a time; no query of an account is out before its role was
\* assumed; the entries of the accounts before the current one are written;
\* a task that failed at an account takes no further step, and the entries
\* of the accounts after it in that region are as they were before the call
C26_AccountsInOrder ==
    /\ []((call.op = "loadLzaResources" /\ PreImport) =>
            \A t \in 1..Len(tasks) :
                LET task == tasks[t]
                IN  /\ task.accounts = PreAccounts
                    /\ task.i \in 1..(Len(task.accounts) + 1)
                    /\ task.pc \in {"sts", "ssm", "failed"} =>
                          task.i <= Len(task.accounts)
                    /\ task.pc = "done" => task.i > Len(task.accounts)
                          \/ task.accounts = << >>
                    /\ task.pc # "ssm" => task.q = NoQueries
                    /\ \A j \in 1..(task.i - 1) :
                          KeyOf(task.accounts[j], task.region)
                              \in DOMAIN Parameters
                    /\ task.pc = "failed" =>
                          /\ ~TaskCanStep(t)
                          /\ \A j \in (task.i + 1)..Len(task.accounts) :
                                Untouched(KeyOf(task.accounts[j], task.region)))
    /\ [][(call.op = "loadLzaResources" /\ nCalls' = nCalls) =>
            \A t \in 1..Len(tasks) :
                /\ tasks'[t].i \in {tasks[t].i, tasks[t].i + 1}
                /\ tasks'[t].i = tasks[t].i + 1 =>
                      /\ tasks[t].pc = "ssm"
                      /\ tasks'[t].pc \in {"sts", "done"}
                /\ (tasks[t].pc = "sts" /\ tasks'[t].pc # "sts") =>
                      tasks'[t].pc \in {"ssm", "failed"}]_vars

\* the second account of a region has failed with the entry of the first
\* written
C26_Witness ==
    /\ call.op = "loadLzaResources"
    /\ \E t \in 1..Len(tasks) :
          /\ tasks[t].pc = "failed"
          /\ Len(tasks[t].accounts) = 2
          /\ tasks[t].i = 2
          /\ KeyOf(tasks[t].accounts[1], tasks[t].region) \in DOMAIN Parameters
          /\ KeyOf(tasks[t].accounts[2], tasks[t].region) \notin DOMAIN Parameters

\* the namespaces, by their place in the order of the queries, whose pages
\* hold the name
NamespacesWith(accountId, region, name) ==
    {k \in 1..Len(Namespaces) :
        LET pages == PagesOf(ssm, accountId, region, Namespaces[k])
        IN  name \in NamesOn(pages, Len(pages))}

\* the value the query of the k-th namespace returns for the name
ReturnedValue(accountId, region, k, name) ==
    LET pages == PagesOf(ssm, accountId, region, Namespaces[k])
    IN  LastValue(pages, Len(pages), name)

\* C27: the entry of every finished pair has the names any of the four
\* namespaces returns, each with the value of the last namespace, in the
\* order IAM, VPC, Transit Gateway, VPC Peering, that returns it
C27_MergedInNamespaceOrder ==
    (call.op = "loadLzaResources" /\ PreImport) =>
        \A t \in 1..Len(tasks) :
            \A j \in 1..(tasks[t].i - 1) :
                LET accountId == tasks[t].accounts[j]
                    region == tasks[t].region
                    entry == Parameters[KeyOf(accountId, region)]
                IN  /\ \A k \in 1..Len(Namespaces) :
                          LET pages == PagesOf(ssm, accountId, region,
                                               Namespaces[k])
                          IN  NamesOn(pages, Len(pages)) \subseteq DOMAIN entry
                    /\ \A name \in DOMAIN entry :
                          /\ NamespacesWith(accountId, region, name) # {}
                          /\ entry[name] =
                                ReturnedValue(accountId, region,
                                    Last(NamespacesWith(accountId, region, name)),
                                    name)

\* the entry written from a store where the IAM and VPC namespaces both
\* return the name "VPC"
C27_Witness ==
    /\ call.op = "loadLzaResources"
    /\ ssm = StoreThreePages
    /\ \E t \in 1..Len(tasks) :
          /\ tasks[t].i = 2
          /\ LET entry == Parameters[KeyOf(tasks[t].accounts[1], tasks[t].region)]
             IN  /\ entry["VPC"][3] = "v1"
                 /\ entry["role"][3] = "v3"

\* the keys of the pairs a task has to write
KeysOf(task) ==
    {KeyOf(task.accounts[j], task.region) : j \in 1..Len(task.accounts)}

NoDuplicateRegion ==
    \A i, j \in 1..Len(config.enabledRegions) :
        config.enabledRegions[i] = config.enabledRegions[j] => i = j

\* C28: with no region twice in enabledRegions, the tasks of one
\* loadLzaResources call have no key in common, and a step of the call
\* keeps every entry, changing at most the entry of the pair the stepping
\* task has just completed
C28_TasksWriteDisjointKeys ==
    /\ []((call.op = "loadLzaResources" /\ PreImport /\ NoDuplicateRegion) =>
            \A t, u \in 1..Len(tasks) :
                t # u => KeysOf(tasks[t]) \cap KeysOf(tasks[u]) = {})
    /\ [][(call.op = "loadLzaResources" /\ NoDuplicateRegion
             /\ nCalls' = nCalls) =>
            \A k \in DOMAIN Parameters :
                /\ k \in DOMAIN Elz'.v.resourceParameters.v
                /\ Elz'.v.resourceParameters.v[k] # Parameters[k] =>
                      \E t \in 1..Len(tasks) :
                          /\ tasks'[t].i = tasks[t].i + 1
                          /\ k = CurrentKey(tasks[t])
                          /\ \A u \in 1..Len(tasks) :
                                u # t => k \notin KeysOf(tasks[u])]_vars

\* two region tasks have both written, each entry holding the values of
\* its own region
C28_Witness ==
    /\ call.op = "loadLzaResources"
    /\ Len(tasks) = 2
    /\ tasks[1].region # tasks[2].region
    /\ \A t \in 1..2 :
          /\ tasks[t].i = 2
          /\ Parameters[KeyOf(tasks[t].accounts[1], tasks[t].region)]["IAM"][2]
                = tasks[t].region

\* the step of loadExternalMapping that failed is one before the cache
\* files are written
FailedBeforeCache ==
    call.failedAt \in {"mkdtemp", "mapping.json", "setTemplateMap",
                       "aseaResources.json"}

\* C30: the directories of earlier calls are left alone; when a cache file
\* of the call's own directory exists, mapping.json was fetched, the
\* template map was built from it and the aseaResources.json fetch has
\* succeeded, the files holding the mapping and the resource list; while
\* the call runs, and after it failed in one of these steps, its directory
\* holds no file
C30_CacheWrittenLast ==
    (call.op = "loadExternalMapping" /\ ~call.usedCache) =>
        /\ SubSeq(assetDirs, 1, Len(call.preAssetDirs)) = call.preAssetDirs
        /\ Len(assetDirs) <= Len(call.preAssetDirs) + 1
        /\ Len(assetDirs) > Len(call.preAssetDirs) =>
              LET dir == assetDirs[Len(assetDirs)]
              IN  /\ dir.resources.def => dir.mapping.def
                  /\ dir.mapping.def =>
                        /\ call.status \in {"resolved", "rejected"}
                        /\ call.status = "rejected" =>
                              call.failedAt = "writeFileSync"
                        /\ call.mapping.def
                        /\ call.mapping = bucket.mapping
                        /\ dir.mapping = call.mapping
                        /\ Elz.v.templateMap.def
                        /\ Len(Elz.v.templateMap.v) =
                               StackCount(call.mapping.v, 1)
                        /\ call.resourceFetch \in {"ok", "NoSuchKey"}
                        /\ Elz.v.resourceList.def
                        /\ dir.resources.def =>
                              dir.resources = SomeJson(Elz.v.resourceList.v)
                  /\ (call.status = "running"
                        \/ (call.status = "rejected" /\ FailedBeforeCache)) =>
                        ~dir.mapping.def /\ ~dir.resources.def
        /\ call.status = "resolved" /\ PreImport =>
              /\ Len(assetDirs) = Len(call.preAssetDirs) + 1
              /\ assetDirs[Len(assetDirs)].mapping.def
              /\ assetDirs[Len(assetDirs)].resources.def

\* the resource-list fetch has failed after the mapping was fetched and the
\* template map built; the directory of the call is empty
C30_Witness ==
    /\ call.op = "loadExternalMapping"
    /\ call.status = "rejected"
    /\ call.failedAt = "aseaResources.json"
    /\ call.mapping.def
    /\ Elz.v.templateMap.def
    /\ Len(assetDirs) = Len(call.preAssetDirs) + 1
    /\ assetDirs[Len(assetDirs)] = NewAssetDir

(***************************************************************************)
(* Properties of the constructs (specification SpecCdk).                   *)
(***************************************************************************)
HandlersOf(stack, type) ==
    {n \in cdk.nodes : n.stack = stack /\ n.kind = "Function" /\ n.type = type}

InstancesOf(stack, type) ==
    {n \in cdk.nodes :
        n.stack = stack /\ n.kind = "CustomResource" /\ n.type = type}

\* C16: a stack holds at most one handler function per construct type, and
\* holds one exactly when it holds an instance of the type; the handler is
\* the child `${resourceType}Lambda` of the stack, every instance uses it
\* as its service token, and the instance that created it is the first one
\* made in the stack
C16_OneHandlerPerType ==
    \A stack \in Stacks, type \in ResourceTypes :
        /\ Cardinality(HandlersOf(stack, type)) <= 1
        /\ HandlersOf(stack, type) # {} <=> InstancesOf(stack, type) # {}
        /\ \A h \in HandlersOf(stack, type) :
              h.scope = "stack" /\ h.id = ConstructName(type)
        /\ \A i \in InstancesOf(stack, type) :
              /\ TryFindChild(cdk.nodes, stack, i.token) = HandlersOf(stack, type)
              /\ i.made <=> \A j \in InstancesOf(stack, type) : i.seq <= j.seq
              /\ i.made <=> \E h \in HandlersOf(stack, type) : h.seq = i.seq

C16_Witness ==
    \E stack \in Stacks :
        /\ Cardinality(InstancesOf(stack, CreateResolverRuleType)) = 2
        /\ Cardinality(HandlersOf(stack, CreateResolverRuleType)) = 1
        /\ Cardinality(InstancesOf(stack, SSMDocumentType)) = 1
        /\ \E i \in InstancesOf(stack, CreateResolverRuleType) :
              ~i.made /\ i.scope = "nested"

=============================================================================
